---- MODULE Spec2Model ----
(***************************************************************************)
(* Semantic document comparison (backend/comparison_router.py).            *)
(*                                                                         *)
(* Six specifications share the variables below.                           *)
(*   SpecMatch    find_semantic_matches as a pure function: Init draws the *)
(*                clause texts and the embedding provider, and the call    *)
(*                applies the matcher under a threshold from Thresholds.   *)
(*   Spec         one compare_documents request, from the file-type check  *)
(*                to the JSON report or the HTTP error.                    *)
(*   SpecFair     a request in which every call that can end does end.    *)
(*   SpecBatches  the same request on documents long enough for several    *)
(*                embedding batches.                                       *)
(*   SpecClassify the classification of one changed pair, for every        *)
(*                response text of the generative model.                   *)
(*   SpecSeg      segment_into_clauses as a pure function of a text given  *)
(*                character by character.                                  *)
(*                                                                         *)
(* Cosine similarities are kept exact: a similarity c is represented by    *)
(* the rational sign(c) * c^2 = num/den (den > 0), which orders exactly as *)
(* c does, so every comparison of the code (>=, argmax) is an integer      *)
(* comparison after cross-multiplication.                                  *)
(***************************************************************************)
EXTENDS Integers, Sequences, FiniteSets, TLC

VARIABLES
    pc,                  \* position of the request / of the matcher call
    original_file,       \* uploaded original document
    revised_file,        \* uploaded revised document
    provider,            \* the embedding service: text -> vector
    original_text,       \* extract_text_from_pdf(original_file)
    revised_text,        \* extract_text_from_pdf(revised_file)
    original_clauses,    \* segment_into_clauses(original_text)
    revised_clauses,     \* segment_into_clauses(revised_text)
    original_embeddings, \* get_embeddings(original_clauses)
    revised_embeddings,  \* get_embeddings(revised_clauses)
    all_embeddings,      \* get_embeddings: the vectors collected so far
    batch_start,         \* get_embeddings: the loop index i
    threshold,           \* threshold argument of find_semantic_matches
    match_results,       \* result of find_semantic_matches
    changed_clauses,     \* matched pairs whose trimmed texts differ
    task,                \* state of each analysis task: pending/running/done
    gen_calls,           \* per task: the prompt built and how the call ended
    ai_analyses,         \* per task: the value the task returned
    max_in_flight,       \* peak number of generative-model calls in flight
    generative_model,    \* the module-level _generative_model: unset, or the handle
    response             \* what the request returned: report or HTTP error

vars == <<pc, original_file, revised_file, provider, original_text,
          revised_text, original_clauses, revised_clauses, original_embeddings,
          revised_embeddings, all_embeddings, batch_start, threshold,
          match_results, changed_clauses, task, gen_calls, ai_analyses,
          max_in_flight, generative_model, response>>

----------------------------------------------------------------------------
(* Bounds of the model *)

\* the original document holds at most this many paragraphs
MaxOriginal == 2

\* the revised document holds at most this many paragraphs
MaxRevised == 3

----------------------------------------------------------------------------
(* Texts and vectors *)

\* a segment is kept only if its trimmed length exceeds this
MinClauseLen == 10

Whitespace == {" ", "\n", "\t"}

\* a paragraph of MinClauseLen + 1 copies of one letter: the shortest kept clause
Txt(c) == [i \in 1..(MinClauseLen + 1) |-> c]

\* the clause texts the matcher is explored on
Texts == {Txt("a"), Txt("b"), Txt("c")}

\* the clause texts the uploaded documents are made of
DocTexts == {Txt("a"), Txt("b")}

\* the embedding vectors the provider may return (two-dimensional, non-zero)
Vec == {<<1, 0>>, <<2, 1>>, <<0, 1>>}

None == "None"

Min(a, b) == IF a <= b THEN a ELSE b

Max(a, b) == IF a >= b THEN a ELSE b

\* the elements of a sequence
Range(s) == {s[i] : i \in 1..Len(s)}

\* all sequences over S of length lo..hi
SeqsOf(S, lo, hi) == UNION {[1..n -> S] : n \in lo..hi}

----------------------------------------------------------------------------
(* Similarity Matcher: find_semantic_matches *)

Dot(u, v) == u[1] * v[1] + u[2] * v[2]

\* a similarity value: the signed square of the cosine, as a fraction
Sim(n, d) == [num |-> n, den |-> d]

\* cosine of two vectors (dot product over the norms), kept as its signed square
Cosine(u, v) ==
    LET d == Dot(u, v)
    IN  Sim((IF d < 0 THEN -1 ELSE 1) * d * d, Dot(u, u) * Dot(v, v))

\* x < y on similarity values
SimLess(x, y) == x.num * y.den < y.num * x.den

\* x >= y on similarity values
SimGE(x, y) == ~SimLess(x, y)

\* rows = revised clauses, columns = original clauses
cosine_similarity(revised_matrix, original_matrix) ==
    [r \in 1..Len(revised_matrix) |->
        [o \in 1..Len(original_matrix) |->
            Cosine(revised_matrix[r], original_matrix[o])]]

\* faulty variant: the last position holding the maximum of the row
ArgMax_Last(row) ==
    CHOOSE j \in 1..Len(row) :
        /\ \A k \in 1..Len(row) : ~SimLess(row[j], row[k])
        /\ \A k \in (j + 1)..Len(row) : SimLess(row[k], row[j])

\* faulty variant: np.argmin, the first position holding the minimum
ArgMax_Min(row) ==
    CHOOSE j \in 1..Len(row) :
        /\ \A k \in 1..Len(row) : ~SimLess(row[k], row[j])
        /\ \A k \in 1..(j - 1) : SimLess(row[j], row[k])

\* np.argmax: the first position (1-based here) holding the maximum of the row
ArgMax(row) ==
    CHOOSE j \in 1..Len(row) :
        /\ \A k \in 1..Len(row) : ~SimLess(row[j], row[k])
        /\ \A k \in 1..(j - 1) : SimLess(row[k], row[j])

\* the default threshold 0.75, as its square 9/16
DefaultThreshold == Sim(9, 16)

\* thresholds 0.4 and 0.75 (as squares), and the cosine of the vectors
\* <<1, 0>> and <<2, 1>> (about 0.89), which a row maximum can be equal to
Thresholds == {Sim(4, 25), Sim(9, 16), Sim(4, 5)}

\* faulty variant: a similarity equal to the threshold is no match
IsMatch_Strict(best_similarity, thr) == SimLess(thr, best_similarity)

\* faulty variant: the comparison reversed
IsMatch_Reversed(best_similarity, thr) == SimGE(thr, best_similarity)

\* if best_similarity >= threshold
IsMatch(best_similarity, thr) == SimGE(best_similarity, thr)

\* faulty variant: the pair is recorded but its original index is not marked as matched
RecordMatch_NoMark(acc, o_text, r_text, best_similarity, best_original_idx, revised_idx) ==
    [acc EXCEPT
        !.matched_pairs = Append(@,
            [original_text  |-> o_text,
             revised_text   |-> r_text,
             similarity     |-> best_similarity,
             original_index |-> best_original_idx,
             revised_index  |-> revised_idx,
             ai_analysis    |-> <<>>])]

\* faulty variant: a matched revised clause is appended to added_clauses as well
RecordMatch_AlsoAdded(acc, o_text, r_text, best_similarity, best_original_idx, revised_idx) ==
    [acc EXCEPT
        !.matched_pairs = Append(@,
            [original_text  |-> o_text,
             revised_text   |-> r_text,
             similarity     |-> best_similarity,
             original_index |-> best_original_idx,
             revised_index  |-> revised_idx,
             ai_analysis    |-> <<>>]),
        !.matched_original_indices = @ \cup {best_original_idx},
        !.added_clauses = Append(@, r_text),
        !.added_indices = Append(@, revised_idx)]

\* matched_pairs.append({...}); matched_original_indices.add(best_original_idx)
\* (ai_analysis: the key compare_documents sets later; <<>> while it is absent)
RecordMatch(acc, o_text, r_text, best_similarity, best_original_idx, revised_idx) ==
    [acc EXCEPT
        !.matched_pairs = Append(@,
            [original_text  |-> o_text,
             revised_text   |-> r_text,
             similarity     |-> best_similarity,
             original_index |-> best_original_idx,
             revised_index  |-> revised_idx,
             ai_analysis    |-> <<>>]),
        !.matched_original_indices = @ \cup {best_original_idx}]

\* added_clauses.append(revised_clause)
RecordAdded(acc, r_text, revised_idx) ==
    [acc EXCEPT
        !.added_clauses = Append(@, r_text),
        !.added_indices = Append(@, revised_idx)]

\* faulty variant: an original clause already consumed cannot be matched again
MatchStep_OneToOne(acc, revised_idx, similarity_matrix, o_clauses, r_clauses, thr) ==
    LET similarities == similarity_matrix[revised_idx + 1]
        best_original_idx == ArgMax(similarities) - 1
        best_similarity == similarities[best_original_idx + 1]
    IN  IF /\ IsMatch(best_similarity, thr)
           /\ best_original_idx \notin acc.matched_original_indices
        THEN RecordMatch(acc, o_clauses[best_original_idx + 1],
                         r_clauses[revised_idx + 1], best_similarity,
                         best_original_idx, revised_idx)
        ELSE RecordAdded(acc, r_clauses[revised_idx + 1], revised_idx)

\* one iteration of the loop over the revised clauses; revised_idx is 0-based
MatchStep(acc, revised_idx, similarity_matrix, o_clauses, r_clauses, thr) ==
    LET similarities == similarity_matrix[revised_idx + 1]
        best_original_idx == ArgMax(similarities) - 1
        best_similarity == similarities[best_original_idx + 1]
    IN  IF IsMatch(best_similarity, thr)
        THEN RecordMatch(acc, o_clauses[best_original_idx + 1],
                         r_clauses[revised_idx + 1], best_similarity,
                         best_original_idx, revised_idx)
        ELSE RecordAdded(acc, r_clauses[revised_idx + 1], revised_idx)

RECURSIVE MatchLoop(_, _, _, _, _, _)
\* for revised_idx, revised_clause in enumerate(revised_clauses)
MatchLoop(acc, revised_idx, similarity_matrix, o_clauses, r_clauses, thr) ==
    IF revised_idx >= Len(r_clauses)
    THEN acc
    ELSE MatchLoop(MatchStep(acc, revised_idx, similarity_matrix,
                             o_clauses, r_clauses, thr),
                   revised_idx + 1, similarity_matrix, o_clauses, r_clauses, thr)

RECURSIVE IndicesNotIn(_, _, _)
\* the indices i..n-1 outside S, ascending
IndicesNotIn(i, n, S) ==
    IF i >= n THEN <<>>
    ELSE (IF i \in S THEN <<>> ELSE <<i>>) \o IndicesNotIn(i + 1, n, S)

\* faulty variant: every original index is listed, matched or not
Unmatched_IgnoreMatched(n, matched) == IndicesNotIn(0, n, {})

\* [i for i in range(len(original_clauses)) if i not in matched_original_indices]
Unmatched(n, matched) == IndicesNotIn(0, n, matched)

\* added_indices and deleted_indices record the loop index of each entry of
\* added_clauses and deleted_clauses (the code keeps the texts only)
find_semantic_matches(o_embeddings, r_embeddings, o_clauses, r_clauses, thr) ==
    LET similarity_matrix == cosine_similarity(r_embeddings, o_embeddings)
        acc == MatchLoop([matched_pairs |-> <<>>, added_clauses |-> <<>>,
                          added_indices |-> <<>>,
                          matched_original_indices |-> {}],
                         0, similarity_matrix, o_clauses, r_clauses, thr)
        deleted == Unmatched(Len(o_clauses), acc.matched_original_indices)
    IN  [matched_pairs    |-> acc.matched_pairs,
         added_clauses    |-> acc.added_clauses,
         added_indices    |-> acc.added_indices,
         deleted_clauses  |-> [k \in 1..Len(deleted) |-> o_clauses[deleted[k] + 1]],
         deleted_indices  |-> deleted]

----------------------------------------------------------------------------
(* SpecMatch: the matcher on its own *)

NoResults == [matched_pairs |-> <<>>, added_clauses |-> <<>>,
              added_indices |-> <<>>, deleted_clauses |-> <<>>,
              deleted_indices |-> <<>>]

\* the provider's answer for a list of clauses: one vector each, in order
Embed(prov, clauses) == [k \in 1..Len(clauses) |-> prov[clauses[k]]]

InitMatch ==
    /\ pc = "match_call"
    /\ original_file = None
    /\ revised_file = None
    /\ provider \in [Texts -> Vec]
    /\ original_text = <<>>
    /\ revised_text = <<>>
    /\ all_embeddings = <<>>
    /\ batch_start = 0
    /\ original_clauses \in SeqsOf(Texts, 1, MaxOriginal)
    /\ revised_clauses \in SeqsOf(Texts, 1, MaxRevised)
    /\ original_embeddings = Embed(provider, original_clauses)
    /\ revised_embeddings = Embed(provider, revised_clauses)
    /\ threshold = DefaultThreshold
    /\ match_results = NoResults
    /\ changed_clauses = <<>>
    /\ task = <<>>
    /\ gen_calls = <<>>
    /\ ai_analyses = <<>>
    /\ max_in_flight = 0
    /\ generative_model = <<>>
    /\ response = <<>>

\* a call find_semantic_matches(..., threshold = thr)
CallFindSemanticMatches ==
    /\ pc = "match_call"
    /\ \E thr \in Thresholds :
        /\ threshold' = thr
        /\ match_results' = find_semantic_matches(original_embeddings,
               revised_embeddings, original_clauses, revised_clauses, thr)
    /\ pc' = "match_returned"
    /\ UNCHANGED <<generative_model,
                   original_file, revised_file, provider, original_text,
                   revised_text, original_clauses, revised_clauses,
                   original_embeddings, revised_embeddings, all_embeddings,
                   batch_start, changed_clauses, task, gen_calls, ai_analyses,
                   max_in_flight, response>>

NextMatch == CallFindSemanticMatches

SpecMatch == InitMatch /\ [][NextMatch]_vars

----------------------------------------------------------------------------
(* Clause Segmenter: segment_into_clauses on the pieces of a text *)

RECURSIVE StripLeft(_)
StripLeft(s) ==
    IF s # <<>> /\ Head(s) \in Whitespace THEN StripLeft(Tail(s)) ELSE s

RECURSIVE StripRight(_)
StripRight(s) ==
    IF s # <<>> /\ s[Len(s)] \in Whitespace
    THEN StripRight(SubSeq(s, 1, Len(s) - 1))
    ELSE s

\* str.strip()
Strip(s) == StripRight(StripLeft(s))

\* a page number: a piece too short to be a clause
ShortPiece == <<"1", "2">>

\* the paragraphs a document is made of
Pieces == DocTexts \cup {ShortPiece}

\* faulty variant: the length filter is missing, every non-empty piece is kept
segment_into_clauses_KeepShort(text) ==
    LET cleaned == [k \in 1..Len(text) |-> Strip(text[k])]
        Keep(cleaned_clause) == cleaned_clause # <<>>
    IN  SelectSeq(cleaned, Keep)

\* faulty variant: a piece is kept before it is trimmed and from MinClauseLen on
segment_into_clauses_Untrimmed(text) ==
    LET Keep(clause) == clause # <<>> /\ Len(clause) >= MinClauseLen
    IN  SelectSeq(text, Keep)

\* the clean-up loop: strip every piece, keep those longer than MinClauseLen.
\* A text is held as the sequence of pieces the paragraph split produces.
segment_into_clauses(text) ==
    LET cleaned == [k \in 1..Len(text) |-> Strip(text[k])]
        Keep(cleaned_clause) ==
            cleaned_clause # <<>> /\ Len(cleaned_clause) > MinClauseLen
    IN  SelectSeq(cleaned, Keep)

\* the end of the whitespace run that starts at position i of the text
RECURSIVE RunEnd(_, _)
RunEnd(text, i) ==
    IF i < Len(text) /\ text[i + 1] \in Whitespace
    THEN RunEnd(text, i + 1)
    ELSE i

\* Where a match of \n\s*\n+ that starts at position i ends, 0 when there is
\* none: the pattern needs a newline at i and a second newline with only
\* whitespace between them, and being greedy it runs up to the last newline
\* of the whitespace run.
MatchEnd(text, i) ==
    IF text[i] # "\n" THEN 0
    ELSE LET later == {e \in (i + 1)..RunEnd(text, i) : text[e] = "\n"}
         IN  IF later = {} THEN 0
             ELSE CHOOSE e \in later : \A f \in later : f <= e

\* faulty variant: a single newline separates as well (the pattern \n+)
RECURSIVE re_split_Newline(_)
re_split_Newline(text) ==
    LET starts == {i \in 1..Len(text) : text[i] = "\n"}
    IN  IF starts = {} THEN <<text>>
        ELSE LET i == CHOOSE s \in starts : \A t \in starts : s <= t
                 later == {e \in i..RunEnd(text, i) : text[e] = "\n"}
                 e == CHOOSE f \in later : \A g \in later : g <= f
             IN  <<SubSeq(text, 1, i - 1)>>
                    \o re_split_Newline(SubSeq(text, e + 1, Len(text)))

\* re.split(r'\n\s*\n+', text) on a text held as its characters: the text
\* before the leftmost match, then the split of what follows the match
RECURSIVE re_split(_)
re_split(text) ==
    LET starts == {i \in 1..Len(text) : MatchEnd(text, i) # 0}
    IN  IF starts = {} THEN <<text>>
        ELSE LET i == CHOOSE s \in starts : \A t \in starts : s <= t
             IN  <<SubSeq(text, 1, i - 1)>>
                    \o re_split(SubSeq(text, MatchEnd(text, i) + 1, Len(text)))

----------------------------------------------------------------------------
(* Change Classifier: analyze_semantic_diff *)

\* what model.generate_content(prompt) does: it raises, or returns a text
\* GenerativeModel("gemini-1.5-pro"), the instance the task `creator` made
GenerativeModel(creator) == [model_name |-> "gemini-1.5-pro", created_by |-> creator]

\* faulty variant: every call makes a new instance and stores it
get_generative_model_Fresh(handle, i) == <<GenerativeModel(i)>>

\* get_generative_model called by task i: the value the global holds after it
get_generative_model(handle, i) ==
    IF handle = <<>> THEN <<GenerativeModel(i)>> ELSE handle

\* the try body raised: generate_content, or reading response.text
Raises == [raises |-> TRUE, text |-> <<>>]

Returns(t) == [raises |-> FALSE, text |-> t]

\* The response text is a sequence of tokens: "{" and "}", "k" for the members
\* "summary": .., "implication": .., "classification": "Beneficial" of a JSON
\* object, "x" for prose.  The outcomes a classification call may have:
ModelOutcomes ==
    {Raises, Returns(<<"{", "k", "}">>), Returns(<<"x">>), Returns(<<"{", "x">>)}

\* str.find: the first position of c (1-based), 0 when absent
Find(s, c) ==
    IF c \in Range(s) THEN CHOOSE i \in 1..Len(s) :
            s[i] = c /\ \A j \in 1..(i - 1) : s[j] # c
    ELSE 0

\* faulty variant: the first position of c is taken, as str.find does
RFind_First(s, c) ==
    IF c \in Range(s) THEN CHOOSE i \in 1..Len(s) :
            s[i] = c /\ \A j \in 1..(i - 1) : s[j] # c
    ELSE 0

\* str.rfind: the last position of c (1-based), 0 when absent
RFind(s, c) ==
    IF c \in Range(s) THEN CHOOSE i \in 1..Len(s) :
            s[i] = c /\ \A j \in (i + 1)..Len(s) : s[j] # c
    ELSE 0

\* the members between the braces, whitespace dropped
JsonMembers(json_text) ==
    LET NotSpace(c) == c \notin Whitespace
    IN  SelectSeq(SubSeq(json_text, 2, Len(json_text) - 1), NotSpace)

\* the tokens that stand for the members of a JSON object: "k" as above, "m"
\* for the same three keys with "classification": "Mixed", "o" for a single
\* member under another key ("note": ..)
MemberTokens == {"k", "m", "o"}

\* whether json.loads accepts the text: an object, empty or with members
JsonValid(json_text) ==
    /\ Len(json_text) >= 2
    /\ json_text[1] = "{"
    /\ json_text[Len(json_text)] = "}"
    /\ JsonMembers(json_text) \in {<<>>} \cup {<<t>> : t \in MemberTokens}

\* json.loads of an accepted text: the dict of its members, as they are
JsonLoads(json_text) ==
    LET members == JsonMembers(json_text)
    IN  IF members = <<"k">>
        THEN [summary |-> "S", implication |-> <<"I">>,
              classification |-> "Beneficial"]
        ELSE IF members = <<"m">>
        THEN [summary |-> "S", implication |-> <<"I">>,
              classification |-> "Mixed"]
        ELSE IF members = <<"o">>
        THEN [note |-> "N"]
        ELSE <<>>

\* the fallback when the response holds no JSON or JSON that does not parse
ParseFallback(raw) ==
    [summary |-> "Changes detected between clauses",
     implication |-> raw,
     classification |-> "Neutral"]

\* the fallback of the outer except
ExceptFallback ==
    [summary |-> "Analysis failed",
     implication |-> <<"Could not analyze changes: ", "e">>,
     classification |-> "Neutral"]

\* the inner try: parse the response text
ParseResponse(text) ==
    LET response_text == Strip(text)
    IN  IF "{" \in Range(response_text) /\ "}" \in Range(response_text)
        THEN LET start_idx == Find(response_text, "{")
                 end_idx == RFind(response_text, "}")
                 json_text == SubSeq(response_text, start_idx, end_idx)
             IN  IF JsonValid(json_text)
                 THEN JsonLoads(json_text)
                 ELSE ParseFallback(text)
        ELSE ParseFallback(response_text)

\* what a task ends with: a returned dict, or an exception that escaped it
Returned(d) == [dict |-> d]

Escaped(e) == [exception |-> e]

IsDict(a) == "dict" \in DOMAIN a

\* faulty variant: no outer except, the exception of the call escapes the task
analyze_semantic_diff_NoCatch(outcome) ==
    IF outcome.raises
    THEN Escaped("e")
    ELSE Returned(ParseResponse(outcome.text))

\* analyze_semantic_diff once generate_content has ended with `outcome`
analyze_semantic_diff(outcome) ==
    IF outcome.raises
    THEN Returned(ExceptFallback)
    ELSE Returned(ParseResponse(outcome.text))

----------------------------------------------------------------------------
(* Comparison Orchestrator: compare_documents *)

\* get_embeddings sends this many clauses per provider call
BatchSize == 5

NotPdf == [filename_pdf |-> FALSE, readable |-> TRUE, pieces |-> <<>>]

Corrupt == [filename_pdf |-> TRUE, readable |-> FALSE, pieces |-> <<>>]

Pdf(p) == [filename_pdf |-> TRUE, readable |-> TRUE, pieces |-> p]

\* the uploads: a file that is no .pdf, an unreadable PDF, or a PDF of at
\* most n pieces
Files(n) == {NotPdf, Corrupt} \cup {Pdf(p) : p \in SeqsOf(Pieces, 0, n)}

\* faulty variant: every failure is reported under the catch-all message
HTTPException_Generic(code, msg) ==
    [status_code |-> 500, detail |-> "Document comparison failed"]

HTTPException(code, msg) == [status_code |-> code, detail |-> msg]

NoCall == [prompt |-> <<>>, outcome |-> <<>>]

Init ==
    /\ pc = "start"
    /\ original_file \in Files(MaxOriginal)
    /\ revised_file \in Files(MaxRevised)
    /\ provider \in [DocTexts -> Vec]
    /\ original_text = <<>>
    /\ revised_text = <<>>
    /\ original_clauses = <<>>
    /\ revised_clauses = <<>>
    /\ original_embeddings = <<>>
    /\ revised_embeddings = <<>>
    /\ all_embeddings = <<>>
    /\ batch_start = 0
    /\ threshold = DefaultThreshold
    /\ match_results = NoResults
    /\ changed_clauses = <<>>
    /\ task = <<>>
    /\ gen_calls = <<>>
    /\ ai_analyses = <<>>
    /\ max_in_flight = 0
    /\ generative_model = <<>>
    /\ response = <<>>

\* the file-type checks at the top of the handler
ValidateFileTypes ==
    /\ pc = "start"
    /\ IF ~original_file.filename_pdf
       THEN /\ response' = HTTPException(400, "Original file must be a PDF")
            /\ pc' = "error"
       ELSE IF ~revised_file.filename_pdf
       THEN /\ response' = HTTPException(400, "Revised file must be a PDF")
            /\ pc' = "error"
       ELSE /\ response' = response
            /\ pc' = "extract"
    /\ UNCHANGED <<generative_model,
                   original_file, revised_file, provider, original_text,
                   revised_text, original_clauses, revised_clauses,
                   original_embeddings, revised_embeddings, all_embeddings,
                   batch_start, threshold, match_results, changed_clauses,
                   task, gen_calls, ai_analyses, max_in_flight>>

\* Step 1: extract_text_from_pdf on both files
ExtractText ==
    /\ pc = "extract"
    /\ IF ~original_file.readable \/ ~revised_file.readable
       THEN /\ response' = HTTPException(400, "Failed to extract text from PDF")
            /\ pc' = "error"
            /\ UNCHANGED <<original_text, revised_text>>
       ELSE /\ original_text' = original_file.pieces
            /\ revised_text' = revised_file.pieces
            /\ response' = response
            /\ pc' = "segment"
    /\ UNCHANGED <<generative_model,
                   original_file, revised_file, provider, original_clauses,
                   revised_clauses, original_embeddings, revised_embeddings,
                   all_embeddings, batch_start, threshold, match_results,
                   changed_clauses, task, gen_calls, ai_analyses,
                   max_in_flight>>

\* faulty variant: the clause lists are not checked, an empty one goes on
SegmentDocuments_NoCheck ==
    /\ pc = "segment"
    /\ original_clauses' = segment_into_clauses(original_text)
    /\ revised_clauses' = segment_into_clauses(revised_text)
    /\ pc' = "embed_original"
    /\ UNCHANGED <<generative_model, original_file, revised_file, provider,
                   original_text, revised_text, original_embeddings,
                   revised_embeddings, all_embeddings, batch_start, threshold,
                   match_results, changed_clauses, task, gen_calls,
                   ai_analyses, max_in_flight, response>>

\* Step 2: segment both texts and reject an empty clause list
SegmentDocuments ==
    /\ pc = "segment"
    /\ original_clauses' = segment_into_clauses(original_text)
    /\ revised_clauses' = segment_into_clauses(revised_text)
    /\ IF original_clauses' = <<>>
       THEN /\ response' = HTTPException(400,
                    "No readable content found in original document")
            /\ pc' = "error"
       ELSE IF revised_clauses' = <<>>
       THEN /\ response' = HTTPException(400,
                    "No readable content found in revised document")
            /\ pc' = "error"
       ELSE /\ response' = response
            /\ pc' = "embed_original"
    /\ UNCHANGED <<generative_model,
                   original_file, revised_file, provider, original_text,
                   revised_text, original_embeddings, revised_embeddings,
                   all_embeddings, batch_start, threshold, match_results,
                   changed_clauses, task, gen_calls, ai_analyses,
                   max_in_flight>>

\* the clause list the running get_embeddings call was given
EmbeddingInput ==
    IF pc = "embed_original" THEN original_clauses ELSE revised_clauses

\* faulty variant: the vectors of a batch are put in front of the earlier ones
EmbedBatch_Prepend ==
    /\ pc \in {"embed_original", "embed_revised"}
    /\ batch_start < Len(EmbeddingInput)
    /\ LET batch == SubSeq(EmbeddingInput, batch_start + 1,
                           Min(batch_start + BatchSize, Len(EmbeddingInput)))
       IN  all_embeddings' = Embed(provider, batch) \o all_embeddings
    /\ batch_start' = batch_start + BatchSize
    /\ UNCHANGED <<generative_model, pc, original_file, revised_file, provider,
                   original_text, revised_text, original_clauses,
                   revised_clauses, original_embeddings, revised_embeddings,
                   threshold, match_results, changed_clauses, task, gen_calls,
                   ai_analyses, max_in_flight, response>>

\* Step 3, one batch: model.get_embeddings(batch) returns one vector per clause
EmbedBatch ==
    /\ pc \in {"embed_original", "embed_revised"}
    /\ batch_start < Len(EmbeddingInput)
    /\ LET batch == SubSeq(EmbeddingInput, batch_start + 1,
                           Min(batch_start + BatchSize, Len(EmbeddingInput)))
       IN  all_embeddings' = all_embeddings \o Embed(provider, batch)
    /\ batch_start' = batch_start + BatchSize
    /\ UNCHANGED <<generative_model,
                   pc, original_file, revised_file, provider, original_text,
                   revised_text, original_clauses, revised_clauses,
                   original_embeddings, revised_embeddings, threshold,
                   match_results, changed_clauses, task, gen_calls,
                   ai_analyses, max_in_flight, response>>

\* faulty variant: a failed batch is skipped and the loop goes on
EmbedBatchFails_Skip ==
    /\ pc \in {"embed_original", "embed_revised"}
    /\ batch_start < Len(EmbeddingInput)
    /\ batch_start' = batch_start + BatchSize
    /\ UNCHANGED <<generative_model,
                   pc, original_file, revised_file, provider, original_text,
                   revised_text, original_clauses, revised_clauses,
                   original_embeddings, revised_embeddings, all_embeddings,
                   threshold, match_results, changed_clauses, task, gen_calls,
                   ai_analyses, max_in_flight, response>>

\* Step 3, one batch: the provider call raises
EmbedBatchFails ==
    /\ pc \in {"embed_original", "embed_revised"}
    /\ batch_start < Len(EmbeddingInput)
    /\ response' = HTTPException(500, "Failed to generate embeddings")
    /\ pc' = "error"
    /\ UNCHANGED <<generative_model,
                   original_file, revised_file, provider, original_text,
                   revised_text, original_clauses, revised_clauses,
                   original_embeddings, revised_embeddings, all_embeddings,
                   batch_start, threshold, match_results, changed_clauses,
                   task, gen_calls, ai_analyses, max_in_flight>>

\* Step 3: get_embeddings returns all_embeddings
EmbedReturn ==
    /\ pc \in {"embed_original", "embed_revised"}
    /\ batch_start >= Len(EmbeddingInput)
    /\ IF pc = "embed_original"
       THEN /\ original_embeddings' = all_embeddings
            /\ revised_embeddings' = revised_embeddings
            /\ pc' = "embed_revised"
       ELSE /\ revised_embeddings' = all_embeddings
            /\ original_embeddings' = original_embeddings
            /\ pc' = "match"
    /\ all_embeddings' = <<>>
    /\ batch_start' = 0
    /\ UNCHANGED <<generative_model,
                   original_file, revised_file, provider, original_text,
                   revised_text, original_clauses, revised_clauses, threshold,
                   match_results, changed_clauses, task, gen_calls,
                   ai_analyses, max_in_flight, response>>

\* Step 4: find_semantic_matches with the default threshold
FindMatches ==
    /\ pc = "match"
    /\ match_results' = find_semantic_matches(original_embeddings,
           revised_embeddings, original_clauses, revised_clauses,
           DefaultThreshold)
    /\ pc' = "collect"
    /\ UNCHANGED <<generative_model,
                   original_file, revised_file, provider, original_text,
                   revised_text, original_clauses, revised_clauses,
                   original_embeddings, revised_embeddings, all_embeddings,
                   batch_start, threshold, changed_clauses, task, gen_calls,
                   ai_analyses, max_in_flight, response>>

\* faulty variant: every matched pair is analysed
TextDiffers_Always(pair) == TRUE

\* faulty variant: the comparison inverted, the unchanged pairs are analysed
TextDiffers_Same(pair) == Strip(pair.original_text) = Strip(pair.revised_text)

\* if pair['original_text'].strip() != pair['revised_text'].strip()
TextDiffers(pair) == Strip(pair.original_text) # Strip(pair.revised_text)

\* Step 5, the loop: one coroutine (not yet started) per differing matched pair
CollectChanged ==
    /\ pc = "collect"
    /\ changed_clauses' = SelectSeq(match_results.matched_pairs, TextDiffers)
    /\ task' = [i \in 1..Len(changed_clauses') |-> "pending"]
    /\ gen_calls' = [i \in 1..Len(changed_clauses') |-> NoCall]
    /\ ai_analyses' = [i \in 1..Len(changed_clauses') |-> <<>>]
    /\ pc' = IF changed_clauses' # <<>> THEN "gather" ELSE "assemble"
    /\ UNCHANGED <<generative_model,
                   original_file, revised_file, provider, original_text,
                   revised_text, original_clauses, revised_clauses,
                   original_embeddings, revised_embeddings, all_embeddings,
                   batch_start, threshold, match_results, max_in_flight,
                   response>>

\* the tasks whose generative-model call is issued and has not returned
InFlight == {i \in 1..Len(task) : task[i] = "running"}

\* The event loop starts task i: the tasks of gather run in the order given,
\* and analyze_semantic_diff holds no await, so a started task keeps the loop
\* until it ends.  The task obtains the handle (get_generative_model sets the
\* global when it is unset) and calls model.generate_content(prompt).
TaskCall(i) ==
    /\ pc = "gather"
    /\ task[i] = "pending"
    /\ \A j \in 1..Len(task) : j < i => task[j] = "done"
    /\ InFlight = {}
    /\ generative_model' = get_generative_model(generative_model, i)
    /\ task' = [task EXCEPT ![i] = "running"]
    /\ gen_calls' = [gen_calls EXCEPT ![i].prompt =
            <<changed_clauses[i].original_text, changed_clauses[i].revised_text>>]
    /\ max_in_flight' = Max(max_in_flight, Cardinality(InFlight \cup {i}))
    /\ UNCHANGED <<pc, original_file, revised_file, provider, original_text,
                   revised_text, original_clauses, revised_clauses,
                   original_embeddings, revised_embeddings, all_embeddings,
                   batch_start, threshold, match_results, changed_clauses,
                   ai_analyses, response>>

\* The event loop starts task i while the handle is unset and the constructor
\* GenerativeModel(..) raises: the global stays unset, generate_content is
\* not called and the task ends at once in the outer except.
TaskModelFails(i) ==
    /\ pc = "gather"
    /\ task[i] = "pending"
    /\ \A j \in 1..Len(task) : j < i => task[j] = "done"
    /\ InFlight = {}
    /\ generative_model = <<>>
    /\ task' = [task EXCEPT ![i] = "done"]
    /\ gen_calls' = [gen_calls EXCEPT ![i] =
            [prompt |-> <<changed_clauses[i].original_text,
                          changed_clauses[i].revised_text>>,
             outcome |-> <<Raises>>]]
    /\ ai_analyses' = [ai_analyses EXCEPT
                            ![i] = <<analyze_semantic_diff(Raises)>>]
    /\ UNCHANGED <<generative_model, pc, original_file, revised_file, provider,
                   original_text, revised_text, original_clauses,
                   revised_clauses, original_embeddings, revised_embeddings,
                   all_embeddings, batch_start, threshold, match_results,
                   changed_clauses, max_in_flight, response>>

\* generate_content ends (returns a text or raises) and task i runs to its end
TaskReturn(i) ==
    /\ pc = "gather"
    /\ task[i] = "running"
    /\ \E outcome \in ModelOutcomes :
        /\ gen_calls' = [gen_calls EXCEPT ![i].outcome = <<outcome>>]
        /\ ai_analyses' = [ai_analyses EXCEPT
                                ![i] = <<analyze_semantic_diff(outcome)>>]
    /\ task' = [task EXCEPT ![i] = "done"]
    /\ UNCHANGED <<generative_model,
                   pc, original_file, revised_file, provider, original_text,
                   revised_text, original_clauses, revised_clauses,
                   original_embeddings, revised_embeddings, all_embeddings,
                   batch_start, threshold, match_results, changed_clauses,
                   max_in_flight, response>>

\* the fallback the join sets for a task that ended with an exception
JoinFallback ==
    [summary |-> "Analysis failed",
     implication |-> <<"Could not analyze this change">>,
     classification |-> "Neutral"]

\* faulty variant: the loop of the join stops before the last analysis
CombineResults_DropsLast(changed, analyses) ==
    [i \in 1..Len(changed) |->
        LET analysis == analyses[i][1]
        IN  IF i = Len(changed)
            THEN changed[i]
            ELSE [changed[i] EXCEPT !.ai_analysis =
                    IF IsDict(analysis) THEN <<analysis.dict>>
                    ELSE <<JoinFallback>>]]

\* faulty variant: the analyses are combined in reverse order
CombineResults_Reversed(changed, analyses) ==
    [i \in 1..Len(changed) |->
        LET analysis == analyses[Len(changed) + 1 - i][1]
        IN  [changed[i] EXCEPT !.ai_analysis =
                IF IsDict(analysis) THEN <<analysis.dict>> ELSE <<JoinFallback>>]]

\* for i, analysis in enumerate(ai_analyses): changed_clauses[i]['ai_analysis'] = ..
CombineResults(changed, analyses) ==
    [i \in 1..Len(changed) |->
        LET analysis == analyses[i][1]
        IN  [changed[i] EXCEPT !.ai_analysis =
                IF IsDict(analysis) THEN <<analysis.dict>> ELSE <<JoinFallback>>]]

\* faulty variant: the join goes on only when no task has failed
JoinResults_WaitsForSuccess ==
    /\ pc = "gather"
    /\ \A i \in 1..Len(task) :
            task[i] = "done" /\ ~gen_calls[i].outcome[1].raises
    /\ changed_clauses' = CombineResults(changed_clauses, ai_analyses)
    /\ pc' = "assemble"
    /\ UNCHANGED <<generative_model, original_file, revised_file, provider,
                   original_text, revised_text, original_clauses,
                   revised_clauses, original_embeddings, revised_embeddings,
                   all_embeddings, batch_start, threshold, match_results,
                   task, gen_calls, ai_analyses, max_in_flight, response>>

\* asyncio.gather(..., return_exceptions=True) has every result: combine them
JoinResults ==
    /\ pc = "gather"
    /\ \A i \in 1..Len(task) : task[i] = "done"
    /\ changed_clauses' = CombineResults(changed_clauses, ai_analyses)
    /\ pc' = "assemble"
    /\ UNCHANGED <<generative_model,
                   original_file, revised_file, provider, original_text,
                   revised_text, original_clauses, revised_clauses,
                   original_embeddings, revised_embeddings, all_embeddings,
                   batch_start, threshold, match_results, task, gen_calls,
                   ai_analyses, max_in_flight, response>>

\* clause.get('ai_analysis', {...})
DefaultAnalysis ==
    [summary |-> "No changes detected",
     implication |-> <<"Text appears identical">>,
     classification |-> "Neutral"]

\* faulty variant: the counts of additions and deletions are exchanged
BuildReport_SwapsCounts(mr, changed, o_clauses, r_clauses) ==
    [addedClauses   |-> mr.added_clauses,
     deletedClauses |-> mr.deleted_clauses,
     changedClauses |-> [i \in 1..Len(changed) |->
        [originalText |-> changed[i].original_text,
         revisedText  |-> changed[i].revised_text,
         aiAnalysis   |-> IF changed[i].ai_analysis # <<>>
                          THEN changed[i].ai_analysis[1]
                          ELSE DefaultAnalysis]],
     summary |->
        [totalChanges    |-> Len(changed),
         additions       |-> Len(mr.deleted_clauses),
         deletions       |-> Len(mr.added_clauses),
         originalClauses |-> Len(o_clauses),
         revisedClauses  |-> Len(r_clauses)]]

\* faulty variant: totalChanges counts every matched pair
BuildReport_CountsMatched(mr, changed, o_clauses, r_clauses) ==
    [addedClauses   |-> mr.added_clauses,
     deletedClauses |-> mr.deleted_clauses,
     changedClauses |-> [i \in 1..Len(changed) |->
        [originalText |-> changed[i].original_text,
         revisedText  |-> changed[i].revised_text,
         aiAnalysis   |-> IF changed[i].ai_analysis # <<>>
                          THEN changed[i].ai_analysis[1]
                          ELSE DefaultAnalysis]],
     summary |->
        [totalChanges    |-> Len(mr.matched_pairs),
         additions       |-> Len(mr.added_clauses),
         deletions       |-> Len(mr.deleted_clauses),
         originalClauses |-> Len(o_clauses),
         revisedClauses  |-> Len(r_clauses)]]

\* Step 6: the report
BuildReport(mr, changed, o_clauses, r_clauses) ==
    [addedClauses   |-> mr.added_clauses,
     deletedClauses |-> mr.deleted_clauses,
     changedClauses |-> [i \in 1..Len(changed) |->
        [originalText |-> changed[i].original_text,
         revisedText  |-> changed[i].revised_text,
         aiAnalysis   |-> IF changed[i].ai_analysis # <<>>
                          THEN changed[i].ai_analysis[1]
                          ELSE DefaultAnalysis]],
     summary |->
        [totalChanges    |-> Len(changed),
         additions       |-> Len(mr.added_clauses),
         deletions       |-> Len(mr.deleted_clauses),
         originalClauses |-> Len(o_clauses),
         revisedClauses  |-> Len(r_clauses)]]

\* Step 6: return JSONResponse(content=result)
AssembleReport ==
    /\ pc = "assemble"
    /\ response' = BuildReport(match_results, changed_clauses,
                               original_clauses, revised_clauses)
    /\ pc' = "done"
    /\ UNCHANGED <<generative_model,
                   original_file, revised_file, provider, original_text,
                   revised_text, original_clauses, revised_clauses,
                   original_embeddings, revised_embeddings, all_embeddings,
                   batch_start, threshold, match_results, changed_clauses,
                   task, gen_calls, ai_analyses, max_in_flight>>

Next ==
    \/ ValidateFileTypes
    \/ ExtractText
    \/ SegmentDocuments
    \/ EmbedBatch
    \/ EmbedBatchFails
    \/ EmbedReturn
    \/ FindMatches
    \/ CollectChanged
    \/ \E i \in 1..Len(task) : TaskCall(i)
    \/ \E i \in 1..Len(task) : TaskModelFails(i)
    \/ \E i \in 1..Len(task) : TaskReturn(i)
    \/ JoinResults
    \/ AssembleReport

Spec == Init /\ [][Next]_vars

----------------------------------------------------------------------------
(* compare_documents on documents long enough for several embedding batches *)

\* a long document needs at most this many provider calls per get_embeddings
MaxBatches == 2

\* n copies of the paragraph x
Rep(x, n) == [i \in 1..n |-> x]

\* the long originals: up to MaxBatches * BatchSize paragraphs, all alike
LongOriginals ==
    {Pdf(Rep(Txt("a"), n)) : n \in 1..(MaxBatches * BatchSize)}

\* the long revisions: the same, or with another paragraph at the end (so at
\* most one matched pair differs in text)
LongRevisions ==
    LongOriginals
        \cup {Pdf(Append(Rep(Txt("a"), n - 1), Txt("b"))) :
                n \in 2..(MaxBatches * BatchSize)}

InitBatches ==
    /\ pc = "start"
    /\ original_file \in LongOriginals
    /\ revised_file \in LongRevisions
    /\ provider \in [DocTexts -> Vec]
    /\ original_text = <<>>
    /\ revised_text = <<>>
    /\ original_clauses = <<>>
    /\ revised_clauses = <<>>
    /\ original_embeddings = <<>>
    /\ revised_embeddings = <<>>
    /\ all_embeddings = <<>>
    /\ batch_start = 0
    /\ threshold = DefaultThreshold
    /\ match_results = NoResults
    /\ changed_clauses = <<>>
    /\ task = <<>>
    /\ gen_calls = <<>>
    /\ ai_analyses = <<>>
    /\ max_in_flight = 0
    /\ generative_model = <<>>
    /\ response = <<>>

SpecBatches == InitBatches /\ [][Next]_vars

----------------------------------------------------------------------------
(* The request when every external call ends *)

\* the originals: not a PDF, unreadable, nothing but a short fragment, or one
\* paragraph
FairOriginals == {NotPdf, Corrupt, Pdf(<<ShortPiece>>), Pdf(<<Txt("a")>>)}

\* the revisions: the same failures, or up to MaxRevised paragraphs that all
\* differ from the original one, so that each gets a classification task
FairRevisions ==
    {NotPdf, Corrupt, Pdf(<<ShortPiece>>)}
        \cup {Pdf(Rep(Txt("b"), n)) : n \in 1..MaxRevised}

\* the provider gives every text the same vector: every revised paragraph is
\* matched
InitFair ==
    /\ pc = "start"
    /\ original_file \in FairOriginals
    /\ revised_file \in FairRevisions
    /\ provider = [t \in DocTexts |-> <<1, 0>>]
    /\ original_text = <<>>
    /\ revised_text = <<>>
    /\ original_clauses = <<>>
    /\ revised_clauses = <<>>
    /\ original_embeddings = <<>>
    /\ revised_embeddings = <<>>
    /\ all_embeddings = <<>>
    /\ batch_start = 0
    /\ threshold = DefaultThreshold
    /\ match_results = NoResults
    /\ changed_clauses = <<>>
    /\ task = <<>>
    /\ gen_calls = <<>>
    /\ ai_analyses = <<>>
    /\ max_in_flight = 0
    /\ generative_model = <<>>
    /\ response = <<>>

\* Every external call (extraction, an embedding batch, a generative-model
\* call) eventually returns or raises and the event loop keeps running the
\* handler: a step that can be taken is eventually taken.
SpecFair == InitFair /\ [][Next]_vars /\ WF_vars(Next)

----------------------------------------------------------------------------
(* The classification of one changed pair, for every response text *)

\* a response text holds at most this many tokens
MaxResponse == 4

Tokens == {"{", "}", "x", " "} \cup MemberTokens

\* what the generative-model call may end with: it raises, or returns any text
ResponseOutcomes ==
    {Raises} \cup {Returns(t) : t \in SeqsOf(Tokens, 0, MaxResponse)}

\* The state of a request when the only classification task has issued its
\* call: the original clause Txt("a") and the revised clause Txt("b") have
\* equal vectors, so they are matched, and their texts differ.
InitClassify ==
    /\ pc = "classify_call"
    /\ original_file = None
    /\ revised_file = None
    /\ provider = [t \in DocTexts |-> <<1, 0>>]
    /\ original_text = <<Txt("a")>>
    /\ revised_text = <<Txt("b")>>
    /\ original_clauses = segment_into_clauses(original_text)
    /\ revised_clauses = segment_into_clauses(revised_text)
    /\ original_embeddings = Embed(provider, original_clauses)
    /\ revised_embeddings = Embed(provider, revised_clauses)
    /\ all_embeddings = <<>>
    /\ batch_start = 0
    /\ threshold = DefaultThreshold
    /\ match_results = find_semantic_matches(original_embeddings,
            revised_embeddings, original_clauses, revised_clauses,
            DefaultThreshold)
    /\ changed_clauses = SelectSeq(match_results.matched_pairs, TextDiffers)
    /\ task = <<"running">>
    /\ \E outcome \in ResponseOutcomes :
            gen_calls = <<[prompt |-> <<Txt("a"), Txt("b")>>,
                          outcome |-> <<outcome>>]>>
    /\ ai_analyses = <<<<>>>>
    /\ max_in_flight = 1
    /\ generative_model = <<GenerativeModel(1)>>
    /\ response = <<>>

\* the call ends as drawn: the task returns analyze_semantic_diff of it, the
\* join combines it with its pair and the report is built
ClassifyPair ==
    /\ pc = "classify_call"
    /\ ai_analyses' = <<<<analyze_semantic_diff(gen_calls[1].outcome[1])>>>>
    /\ task' = <<"done">>
    /\ changed_clauses' = CombineResults(changed_clauses, ai_analyses')
    /\ response' = BuildReport(match_results, changed_clauses',
                               original_clauses, revised_clauses)
    /\ pc' = "classified"
    /\ UNCHANGED <<generative_model,
                   original_file, revised_file, provider, original_text,
                   revised_text, original_clauses, revised_clauses,
                   original_embeddings, revised_embeddings, all_embeddings,
                   batch_start, threshold, match_results, gen_calls,
                   max_in_flight>>

NextClassify == ClassifyPair

SpecClassify == InitClassify /\ [][NextClassify]_vars

----------------------------------------------------------------------------
(* segment_into_clauses on texts given character by character *)

\* a separator between two lines holds at most this many characters
MaxSep == 3

\* a line of exactly MinClauseLen characters: the longest piece discarded
TenChars == [i \in 1..MinClauseLen |-> "c"]

\* the lines a text is written with (none holds whitespace)
Lines == {Txt("a"), Txt("b"), TenChars, ShortPiece}

\* what stands between two lines: newlines and spaces
Separators == SeqsOf({"\n", " "}, 0, MaxSep)

\* the characters of the text line1 sep1 line2 sep2 line3
TextOf(doc) ==
    doc.lines[1] \o doc.seps[1] \o doc.lines[2] \o doc.seps[2] \o doc.lines[3]

\* segment_into_clauses is about to be called on a text of three lines
InitSeg ==
    /\ pc = "segment_call"
    /\ original_file \in [lines : [1..3 -> Lines], seps : [1..2 -> Separators]]
    /\ revised_file = None
    /\ provider = None
    /\ original_text = TextOf(original_file)
    /\ revised_text = <<>>
    /\ original_clauses = <<>>
    /\ revised_clauses = <<>>
    /\ original_embeddings = <<>>
    /\ revised_embeddings = <<>>
    /\ all_embeddings = <<>>
    /\ batch_start = 0
    /\ threshold = DefaultThreshold
    /\ match_results = NoResults
    /\ changed_clauses = <<>>
    /\ task = <<>>
    /\ gen_calls = <<>>
    /\ ai_analyses = <<>>
    /\ max_in_flight = 0
    /\ generative_model = <<>>
    /\ response = <<>>

\* the call: the paragraph split, then the clean-up loop over its pieces
CallSegmentIntoClauses ==
    /\ pc = "segment_call"
    /\ original_clauses' = segment_into_clauses(re_split(original_text))
    /\ pc' = "segment_returned"
    /\ UNCHANGED <<generative_model,
                   original_file, revised_file, provider, original_text,
                   revised_text, revised_clauses, original_embeddings,
                   revised_embeddings, all_embeddings, batch_start, threshold,
                   match_results, changed_clauses, task, gen_calls,
                   ai_analyses, max_in_flight, response>>

NextSeg == CallSegmentIntoClauses

SpecSeg == InitSeg /\ [][NextSeg]_vars

----------------------------------------------------------------------------
(* Properties of the matcher (checked under SpecMatch) *)

MatchReturned == pc = "match_returned"

\* the positions of matched_pairs
PairIdx(mr) == 1..Len(mr.matched_pairs)

\* the original indices that some matched pair carries
MatchedOriginals(mr) == {mr.matched_pairs[k].original_index : k \in PairIdx(mr)}

\* the revised indices that some matched pair carries
MatchedRevised(mr) == {mr.matched_pairs[k].revised_index : k \in PairIdx(mr)}

\* the (original_index, revised_index) pairs
PairSet(mr) ==
    {<<mr.matched_pairs[k].original_index, mr.matched_pairs[k].revised_index>> :
        k \in PairIdx(mr)}

\* how many positions of sequence s hold x
Count(s, x) == Cardinality({k \in 1..Len(s) : s[k] = x})

\* C1: every original clause index is either the original_index of some
\* matched pair or listed (once, with its own text) in deleted_clauses, never
\* both: it is deleted if and only if no matched pair has it.
C1_OriginalPartition ==
    MatchReturned =>
        /\ \A i \in 0..(Len(original_clauses) - 1) :
            /\ (i \in Range(match_results.deleted_indices))
                    <=> (i \notin MatchedOriginals(match_results))
            /\ Count(match_results.deleted_indices, i) <= 1
        /\ Range(match_results.deleted_indices) \cup MatchedOriginals(match_results)
                = 0..(Len(original_clauses) - 1)
        /\ Len(match_results.deleted_clauses) = Len(match_results.deleted_indices)
        /\ \A k \in 1..Len(match_results.deleted_indices) :
            match_results.deleted_clauses[k]
                = original_clauses[match_results.deleted_indices[k] + 1]

\* C1 witness: a result with a matched original and a deleted original
C1_Witness ==
    /\ MatchReturned
    /\ MatchedOriginals(match_results) # {}
    /\ match_results.deleted_indices # <<>>

\* C2: every revised clause index is the revised_index of exactly one matched
\* pair or is listed exactly once in added_clauses, never both, never neither.
C2_RevisedPartition ==
    MatchReturned =>
        /\ \A r \in 0..(Len(revised_clauses) - 1) :
            Cardinality({k \in PairIdx(match_results) :
                            match_results.matched_pairs[k].revised_index = r})
                + Count(match_results.added_indices, r) = 1
        /\ Len(match_results.added_clauses) = Len(match_results.added_indices)
        /\ \A k \in 1..Len(match_results.added_indices) :
            match_results.added_clauses[k]
                = revised_clauses[match_results.added_indices[k] + 1]
        /\ \A k \in PairIdx(match_results) :
            match_results.matched_pairs[k].revised_text
                = revised_clauses[match_results.matched_pairs[k].revised_index + 1]

\* C2 witness: a result with a matched revised clause and an added one
C2_Witness ==
    /\ MatchReturned
    /\ match_results.matched_pairs # <<>>
    /\ match_results.added_indices # <<>>

\* C3 as stated: no clause index is reused across matched, added and deleted,
\* and no original index is the original_index of two different matched pairs.
C3_NoIndexReused ==
    MatchReturned =>
        /\ MatchedRevised(match_results) \cap Range(match_results.added_indices) = {}
        /\ MatchedOriginals(match_results) \cap Range(match_results.deleted_indices) = {}
        /\ \A k1, k2 \in PairIdx(match_results) :
            k1 # k2 =>
                /\ match_results.matched_pairs[k1].revised_index
                        # match_results.matched_pairs[k2].revised_index
                /\ match_results.matched_pairs[k1].original_index
                        # match_results.matched_pairs[k2].original_index

\* C3 amended: no index is in two different groups (a revised index is never
\* both matched and added, an original index never both matched and deleted),
\* no revised index is the revised_index of two matched pairs, and added and
\* deleted list no index twice; an original index may be the original_index
\* of several matched pairs.
C3_NoCrossGroupReuse ==
    MatchReturned =>
        /\ MatchedRevised(match_results) \cap Range(match_results.added_indices) = {}
        /\ MatchedOriginals(match_results) \cap Range(match_results.deleted_indices) = {}
        /\ \A k1, k2 \in PairIdx(match_results) :
            k1 # k2 => match_results.matched_pairs[k1].revised_index
                            # match_results.matched_pairs[k2].revised_index
        /\ \A i \in Range(match_results.added_indices) :
            Count(match_results.added_indices, i) = 1
        /\ \A i \in Range(match_results.deleted_indices) :
            Count(match_results.deleted_indices, i) = 1

\* C3 witness: two matched pairs share their original clause while another
\* original clause is deleted
C3_Witness ==
    /\ MatchReturned
    /\ \E k1, k2 \in PairIdx(match_results) :
        /\ k1 # k2
        /\ match_results.matched_pairs[k1].original_index
                = match_results.matched_pairs[k2].original_index
    /\ match_results.deleted_indices # <<>>

\* the result of the same call under threshold t
ResultAt(t) ==
    find_semantic_matches(original_embeddings, revised_embeddings,
                          original_clauses, revised_clauses, t)

\* the index sets of a result: matched pairs, added, deleted
Groups(mr) ==
    [pairs |-> PairSet(mr),
     added |-> Range(mr.added_indices),
     deleted |-> Range(mr.deleted_indices),
     added_texts |-> Range(mr.added_clauses),
     deleted_texts |-> Range(mr.deleted_clauses)]

\* from the result lo (lower threshold) to hi (higher threshold) clauses only
\* move from matched to added or deleted
OnlyUnmatches(lo, hi) ==
    /\ hi.pairs \subseteq lo.pairs
    /\ lo.added \subseteq hi.added
    /\ lo.deleted \subseteq hi.deleted
    /\ lo.added_texts \subseteq hi.added_texts
    /\ lo.deleted_texts \subseteq hi.deleted_texts

\* C7: for thresholds t1 <= t2 on the same clauses and embeddings, the matched
\* pairs at t2 are among those at t1, the added clauses at t1 among those at
\* t2, and the deleted clauses at t1 among those at t2.
C7_ThresholdMonotone ==
    MatchReturned =>
        LET here == Groups(match_results)
        IN  \A t \in Thresholds :
                SimLess(threshold, t) =>
                    LET there == Groups(ResultAt(t))
                    IN  OnlyUnmatches(here, there)

\* C7 witness: a higher threshold turns a matched pair into an added and a
\* deleted clause
C7_Witness ==
    /\ MatchReturned
    /\ \E t \in Thresholds :
        /\ SimLess(threshold, t)
        /\ LET here == Groups(match_results)
               there == Groups(ResultAt(t))
           IN  /\ there.pairs # here.pairs
               /\ there.added # here.added
               /\ there.deleted # here.deleted

\* the similarity 1.0
One == Sim(1, 1)

\* no two of the vectors point the same way (no pair has cosine 1)
NoTies(embeddings) ==
    \A i, j \in 1..Len(embeddings) :
        i # j => SimLess(Cosine(embeddings[i], embeddings[j]), One)

\* the revised clause list is the original one followed by one more clause
PureAddition ==
    /\ Len(revised_clauses) = Len(original_clauses) + 1
    /\ SubSeq(revised_clauses, 1, Len(original_clauses)) = original_clauses

\* s without its k-th element
Without(s, k) == SubSeq(s, 1, k - 1) \o SubSeq(s, k + 1, Len(s))

\* the revised clause list is the original one with its k-th clause removed
PureDeletion(k) ==
    /\ k \in 1..Len(original_clauses)
    /\ revised_clauses = Without(original_clauses, k)

\* the best similarity of the last revised clause is below the threshold
NewClauseUnlike ==
    \A o \in 1..Len(original_embeddings) :
        SimLess(Cosine(revised_embeddings[Len(revised_embeddings)],
                       original_embeddings[o]), threshold)

\* the conclusion of C5
AdditionReported ==
    /\ match_results.deleted_clauses = <<>>
    /\ match_results.added_clauses = <<revised_clauses[Len(revised_clauses)]>>
    /\ MatchedOriginals(match_results) = 0..(Len(original_clauses) - 1)

\* C5 as stated: revised = original + one trailing clause gives, for every
\* embedding assignment, deleted = [], added = [the new clause] and every
\* original clause matched.
C5_PureAddition ==
    MatchReturned /\ PureAddition => AdditionReported

\* C5 amended: the same conclusion when no two original clauses have equal
\* (cosine 1) embeddings and the best similarity of the new clause to the
\* original clauses is below the threshold.
C5_PureAdditionSeparated ==
    MatchReturned /\ PureAddition /\ NoTies(original_embeddings)
                  /\ NewClauseUnlike
        => /\ AdditionReported
           /\ match_results.added_indices = <<Len(revised_clauses) - 1>>

\* C5 witness: a clause added after two original clauses, reported as added
C5_Witness ==
    /\ MatchReturned
    /\ PureAddition
    /\ NoTies(original_embeddings)
    /\ NewClauseUnlike
    /\ Len(original_clauses) >= 2
    /\ Len(match_results.matched_pairs) = Len(original_clauses)
    /\ Len(match_results.added_clauses) = 1

\* the conclusion of C6 for the removed clause k
DeletionReported(k) ==
    /\ match_results.added_clauses = <<>>
    /\ match_results.deleted_clauses = <<original_clauses[k]>>
    /\ MatchedRevised(match_results) = 0..(Len(revised_clauses) - 1)

\* C6 as stated: revised = original with one clause removed gives added = [],
\* deleted = [the removed clause] and every revised clause matched.
C6_PureDeletion ==
    MatchReturned =>
        \A k \in 1..Len(original_clauses) :
            PureDeletion(k) => DeletionReported(k)

\* C6 amended: the same conclusion when no two original clauses have equal
\* (cosine 1) embeddings; the deleted entry is then the removed index itself.
C6_PureDeletionSeparated ==
    MatchReturned /\ NoTies(original_embeddings) =>
        \A k \in 1..Len(original_clauses) :
            PureDeletion(k) =>
                /\ DeletionReported(k)
                /\ match_results.deleted_indices = <<k - 1>>

\* C6 witness: the first of two original clauses removed, reported as deleted
C6_Witness ==
    /\ MatchReturned
    /\ NoTies(original_embeddings)
    /\ Len(original_clauses) >= 2
    /\ PureDeletion(1)
    /\ match_results.deleted_indices = <<0>>
    /\ match_results.matched_pairs # <<>>

----------------------------------------------------------------------------
(* Properties of compare_documents (checked under Spec) *)

Done == pc = "done"

\* the conclusion of C4
NothingReported ==
    /\ response.addedClauses = <<>>
    /\ response.deletedClauses = <<>>
    /\ response.changedClauses = <<>>
    /\ Len(match_results.matched_pairs) = Len(original_clauses)
    /\ \A k \in PairIdx(match_results) :
        /\ match_results.matched_pairs[k].original_index
                = match_results.matched_pairs[k].revised_index
        /\ match_results.matched_pairs[k].revised_index = k - 1

\* C4 as stated: a document compared with itself (equal texts get equal
\* vectors), repeated paragraphs or not, gives no added, no deleted and no
\* changed clause, and every clause is matched to itself.
C4_IdenticalDocuments ==
    Done /\ revised_clauses = original_clauses => NothingReported

\* C4 amended: the same for every document in which no two clauses have
\* equal (cosine 1) embeddings, so in particular no paragraph is repeated;
\* every pair then has similarity 1.
C4_IdenticalSeparated ==
    Done /\ revised_clauses = original_clauses /\ NoTies(original_embeddings)
        => /\ NothingReported
           /\ \A k \in PairIdx(match_results) :
                match_results.matched_pairs[k].similarity.num
                    = match_results.matched_pairs[k].similarity.den

\* C4 witness: a report for a two-clause document compared with itself
C4_Witness ==
    /\ Done
    /\ revised_clauses = original_clauses
    /\ NoTies(original_embeddings)
    /\ Len(original_clauses) >= 2
    /\ Len(match_results.matched_pairs) = 2
    /\ response.summary.totalChanges = 0

\* the matched pairs whose trimmed texts differ
DifferingPairs == SelectSeq(match_results.matched_pairs, TextDiffers)

\* the outcome of the generative-model call of task i
OutcomeOf(i) == gen_calls[i].outcome[1]

\* C8: whatever subset of the N classification calls raises, the report has
\* exactly N changedClauses entries; a pair whose call raised carries the
\* fallback of analyze_semantic_diff (classification Neutral), every other
\* pair the analysis of its own response; every task ran to its end and the
\* request did not end in an error once the classification had begun.
C8_ClassifierResilience ==
    /\ pc = "error" => task = <<>>
    /\ Done =>
        /\ Len(response.changedClauses) = Len(DifferingPairs)
        /\ Len(task) = Len(DifferingPairs)
        /\ \A i \in 1..Len(task) :
            /\ task[i] = "done"
            /\ gen_calls[i].outcome # <<>>
            /\ OutcomeOf(i).raises =>
                /\ response.changedClauses[i].aiAnalysis = ExceptFallback
                /\ response.changedClauses[i].aiAnalysis.classification = "Neutral"
            /\ ~OutcomeOf(i).raises =>
                response.changedClauses[i].aiAnalysis
                    = ParseResponse(OutcomeOf(i).text)

\* C8 witness: three changed pairs, the call of the second raised, the others
\* returned a JSON analysis
C8_Witness ==
    /\ Done
    /\ Len(response.changedClauses) = 3
    /\ OutcomeOf(2).raises
    /\ response.changedClauses[2].aiAnalysis.classification = "Neutral"
    /\ response.changedClauses[1].aiAnalysis.classification = "Beneficial"
    /\ response.changedClauses[3].aiAnalysis.classification = "Beneficial"

\* C9 as stated: with two or more changed pairs the classification calls
\* overlap: at some point of the run one call was issued while another had
\* not yet returned.
C9_CallsOverlap ==
    Done /\ Len(changed_clauses) >= 2 => max_in_flight >= 2

\* C10: the i-th changedClauses entry carries the texts of the i-th differing
\* matched pair, in the order the matcher found them (ascending revised
\* index), and the analysis of the call made for those two texts.
C10_JoinOrder ==
    Done =>
        /\ Len(response.changedClauses) = Len(DifferingPairs)
        /\ \A i \in 1..Len(response.changedClauses) :
            /\ response.changedClauses[i].originalText
                    = DifferingPairs[i].original_text
            /\ response.changedClauses[i].revisedText
                    = DifferingPairs[i].revised_text
            /\ gen_calls[i].prompt = <<response.changedClauses[i].originalText,
                                       response.changedClauses[i].revisedText>>
            /\ response.changedClauses[i].aiAnalysis
                    = analyze_semantic_diff(OutcomeOf(i)).dict
        /\ \A i, j \in 1..Len(changed_clauses) :
            i < j => changed_clauses[i].revised_index
                        < changed_clauses[j].revised_index

\* C10 witness: two changed pairs whose calls ended differently, the first
\* with the fallback of a raised call and the second with a parsed analysis
C10_Witness ==
    /\ Done
    /\ Len(response.changedClauses) >= 2
    /\ OutcomeOf(1) # OutcomeOf(2)
    /\ response.changedClauses[1].aiAnalysis = ExceptFallback
    /\ response.changedClauses[2].aiAnalysis.classification = "Beneficial"

\* both uploads passed the file-type checks and the extraction
Extracted ==
    /\ pc \notin {"start", "extract"}
    /\ original_file.filename_pdf /\ original_file.readable
    /\ revised_file.filename_pdf /\ revised_file.readable

\* every paragraph of the text is, once trimmed, too short to be a clause
OnlyShortFragments(text) ==
    \A k \in 1..Len(text) : Len(Strip(text[k])) <= MinClauseLen

\* nothing after Step 2 has run: no embedding request, no matcher run, no
\* classification task
NothingAfterSegmentation ==
    /\ original_embeddings = <<>>
    /\ revised_embeddings = <<>>
    /\ all_embeddings = <<>>
    /\ batch_start = 0
    /\ match_results = NoResults
    /\ changed_clauses = <<>>
    /\ task = <<>>
    /\ gen_calls = <<>>

\* C11: when the text of either document holds only short fragments (its
\* clause list is empty), the request ends at Step 2 with the "no readable
\* content" error for that document (the original when both are empty):
\* no embedding request, no matcher run, no classification call is made and
\* no report is returned.
C11_NoReadableContent ==
    /\ Extracted /\ pc # "segment" /\ OnlyShortFragments(original_text) =>
        /\ pc = "error"
        /\ response = HTTPException(400,
                "No readable content found in original document")
        /\ NothingAfterSegmentation
    /\ Extracted /\ pc # "segment" /\ ~OnlyShortFragments(original_text)
            /\ OnlyShortFragments(revised_text) =>
        /\ pc = "error"
        /\ response = HTTPException(400,
                "No readable content found in revised document")
        /\ NothingAfterSegmentation

\* C11 witness: the original has a clause, the revised document holds two
\* page numbers only, and the request has ended with the error
C11_Witness ==
    /\ pc = "error"
    /\ original_clauses # <<>>
    /\ revised_text = <<ShortPiece, ShortPiece>>
    /\ response.detail = "No readable content found in revised document"

\* the request is in, or ended in, Step 3: both clause lists are non-empty
\* and the matcher has not run
InEmbedding ==
    /\ Extracted
    /\ pc \in {"embed_original", "embed_revised", "error"}
    /\ original_clauses # <<>>
    /\ revised_clauses # <<>>

\* C12: a request that ended in Step 3 (a provider call for a batch of
\* either document raised, at whatever batch position) ended with the status
\* 500 error naming the embedding stage; no report was returned, the vectors
\* of the batches before the failed one are not used, and neither the matcher
\* nor a classification task has run.  Conversely the matcher only ever runs
\* with one vector per clause of both documents.
C12_EmbeddingFailureFatal ==
    /\ InEmbedding /\ pc = "error" =>
        /\ response = HTTPException(500, "Failed to generate embeddings")
        /\ batch_start < Len(original_clauses) + Len(revised_clauses)
        /\ revised_embeddings = <<>>
        /\ match_results = NoResults
        /\ changed_clauses = <<>>
        /\ task = <<>>
        /\ gen_calls = <<>>
    /\ pc \in {"match", "collect", "gather", "assemble", "done"} =>
        /\ Len(original_embeddings) = Len(original_clauses)
        /\ Len(revised_embeddings) = Len(revised_clauses)

\* C12 witness: the second batch of the revised document failed, after the
\* original document and the first revised batch had been embedded
C12_Witness ==
    /\ pc = "error"
    /\ response.detail = "Failed to generate embeddings"
    /\ Len(original_embeddings) = Len(original_clauses)
    /\ Len(original_clauses) > BatchSize
    /\ batch_start = BatchSize
    /\ Len(all_embeddings) = BatchSize
    /\ Len(revised_clauses) > BatchSize

\* C12 witness of the other document: the first batch of the original failed
C12_WitnessOriginal ==
    /\ pc = "error"
    /\ response.detail = "Failed to generate embeddings"
    /\ original_embeddings = <<>>
    /\ batch_start = 0

\* the similarity matrix of the request (rows = revised clauses)
SimilarityMatrix == cosine_similarity(revised_embeddings, original_embeddings)

\* position o holds the maximum of the row
IsBest(row, o) == \A k \in 1..Len(row) : SimGE(row[o], row[k])

\* the positions of the matched pairs / changed pairs of revised clause r
PairsOf(r) ==
    {k \in PairIdx(match_results) :
        match_results.matched_pairs[k].revised_index = r - 1}

ChangedOf(r) ==
    {i \in 1..Len(changed_clauses) : changed_clauses[i].revised_index = r - 1}

\* C14: in every report, a revised clause r whose best original clause has
\* similarity >= 0.75 is recorded in exactly one matched pair, with an
\* original clause holding the maximum of its row; when the trimmed texts of
\* the pair differ, exactly one changedClauses entry stands for the pair and
\* carries its two texts; r is not among the added clauses and the matched
\* original clause is not among the deleted ones (clauses taken by index).
C14_ParaphraseDetection ==
    Done =>
        \A r \in 1..Len(revised_clauses) :
            LET row == SimilarityMatrix[r]
            IN  (\E o \in 1..Len(row) : SimGE(row[o], DefaultThreshold)) =>
                /\ Cardinality(PairsOf(r)) = 1
                /\ \A k \in PairsOf(r) :
                    LET pair == match_results.matched_pairs[k]
                    IN  /\ IsBest(row, pair.original_index + 1)
                        /\ pair.similarity = row[pair.original_index + 1]
                        /\ pair.revised_text = revised_clauses[r]
                        /\ pair.original_text
                            = original_clauses[pair.original_index + 1]
                        /\ r - 1 \notin Range(match_results.added_indices)
                        /\ pair.original_index
                            \notin Range(match_results.deleted_indices)
                        /\ pair.revised_text
                            \notin Range(response.addedClauses)
                        /\ Strip(pair.original_text) # Strip(pair.revised_text) =>
                            /\ Cardinality(ChangedOf(r)) = 1
                            /\ \A i \in ChangedOf(r) :
                                /\ response.changedClauses[i].originalText
                                        = pair.original_text
                                /\ response.changedClauses[i].revisedText
                                        = pair.revised_text
                        /\ Strip(pair.original_text) = Strip(pair.revised_text) =>
                            ChangedOf(r) = {}

\* C14 witness: a report with a changed pair of different texts whose
\* similarity is below 1 and at least 0.75
C14_Witness ==
    /\ Done
    /\ \E i \in 1..Len(changed_clauses) :
        /\ SimLess(changed_clauses[i].similarity, One)
        /\ SimGE(changed_clauses[i].similarity, DefaultThreshold)
        /\ response.changedClauses[i].originalText
                # response.changedClauses[i].revisedText
        /\ Cardinality(ChangedOf(changed_clauses[i].revised_index + 1)) = 1

\* C15: in every report the summary block agrees with the body and the
\* inputs: totalChanges is the number of changedClauses entries, additions
\* and deletions the lengths of addedClauses and deletedClauses,
\* originalClauses and revisedClauses the numbers of clauses the segmenter
\* kept of the original and of the revised text.
C15_SummaryAgrees ==
    Done =>
        /\ response.summary.totalChanges = Len(response.changedClauses)
        /\ response.summary.additions = Len(response.addedClauses)
        /\ response.summary.deletions = Len(response.deletedClauses)
        /\ response.summary.originalClauses
                = Len(segment_into_clauses(original_file.pieces))
        /\ response.summary.revisedClauses
                = Len(segment_into_clauses(revised_file.pieces))
        /\ response.summary.originalClauses = Len(original_clauses)
        /\ response.summary.revisedClauses = Len(revised_clauses)

\* C15 witness: a report with two changed pairs and a deleted clause, of a
\* revised document that also held a page number the segmenter dropped
C15_Witness ==
    /\ Done
    /\ response.summary.totalChanges = 2
    /\ response.summary.additions = 0
    /\ response.summary.deletions = 1
    /\ response.summary.originalClauses = 2
    /\ response.summary.revisedClauses = 2
    /\ Len(revised_file.pieces) = 3

Failed == pc = "error"

\* the messages that name the extraction stage, the embedding stage or the
\* lack of readable content
StageMessages ==
    {"Failed to extract text from PDF",
     "Failed to generate embeddings",
     "No readable content found in original document",
     "No readable content found in revised document"}

\* C16 as stated: every request that does not return a report ends with an
\* error whose message names the failed stage, extraction, embedding or "no
\* readable content", and with no other message.
C16_ErrorNamesStage ==
    Failed =>
        /\ DOMAIN response = {"status_code", "detail"}
        /\ response.detail \in StageMessages

\* the error a request must end with, by the first stage that failed
ExpectedError ==
    IF ~original_file.filename_pdf
    THEN [status_code |-> 400, detail |-> "Original file must be a PDF"]
    ELSE IF ~revised_file.filename_pdf
    THEN [status_code |-> 400, detail |-> "Revised file must be a PDF"]
    ELSE IF ~original_file.readable \/ ~revised_file.readable
    THEN [status_code |-> 400, detail |-> "Failed to extract text from PDF"]
    ELSE IF original_clauses = <<>>
    THEN [status_code |-> 400,
          detail |-> "No readable content found in original document"]
    ELSE IF revised_clauses = <<>>
    THEN [status_code |-> 400,
          detail |-> "No readable content found in revised document"]
    ELSE [status_code |-> 500, detail |-> "Failed to generate embeddings"]

\* C16 amended: a request that fails at the file-type check, the extraction,
\* the segmentation (empty clause list) or the embedding ends with the
\* explicit error of that stage, the file-type message "... must be a PDF"
\* included, and a report is returned only when no stage failed: both
\* documents gave clauses and every clause of both has its vector.
C16_ErrorNamesFailedStep ==
    /\ Failed => response = ExpectedError
    /\ Done =>
        /\ "summary" \in DOMAIN response
        /\ original_file.filename_pdf /\ original_file.readable
        /\ revised_file.filename_pdf /\ revised_file.readable
        /\ original_clauses # <<>> /\ revised_clauses # <<>>
        /\ Len(original_embeddings) = Len(original_clauses)
        /\ Len(revised_embeddings) = Len(revised_clauses)

\* C16 witness: a request that ended with the file-type error of the revised
\* upload, the original being a readable PDF
C16_Witness ==
    /\ Failed
    /\ original_file.filename_pdf
    /\ original_file.readable
    /\ ~revised_file.filename_pdf
    /\ response.detail = "Revised file must be a PDF"
    /\ response.detail \notin StageMessages

----------------------------------------------------------------------------
(* Properties of the segmenter (checked under SpecSeg) *)

SegmentReturned == pc = "segment_returned"

\* the number of newlines of a separator; a separator of n newlines holds
\* n - 1 blank lines
Newlines(sep) == Cardinality({i \in 1..Len(sep) : sep[i] = "\n"})

\* the paragraphs of a document when the separators of at least n newlines
\* are the paragraph breaks: from line k on, `cur` being the paragraph so far
RECURSIVE Paragraphs(_, _, _, _)
Paragraphs(doc, n, k, cur) ==
    IF k > Len(doc.seps) THEN <<cur>>
    ELSE IF Newlines(doc.seps[k]) >= n
    THEN <<cur>> \o Paragraphs(doc, n, k + 1, doc.lines[k + 1])
    ELSE Paragraphs(doc, n, k + 1, cur \o doc.seps[k] \o doc.lines[k + 1])

\* the clauses expected when a paragraph break is a separator of at least n
\* newlines
ClausesBrokenAt(n) ==
    segment_into_clauses(Paragraphs(original_file, n, 1, original_file.lines[1]))

\* C17 as stated: the text is split only at runs of two or more blank lines
\* (three or more newlines): lines separated by exactly one blank line stay
\* in one clause, lines separated by two or more blank lines are in
\* different clauses.
C17_SplitsOnTwoBlankLines ==
    SegmentReturned => original_clauses = ClausesBrokenAt(3)

\* C17 amended: the text is split at every run of two or more newlines (with
\* or without spaces between them), that is at one or more blank lines;
\* lines separated by a single newline stay in one clause.
C17_SplitsOnBlankLine ==
    SegmentReturned => original_clauses = ClausesBrokenAt(2)

\* C17 witness: two clauses that exactly one blank line separates, and a
\* clause of two lines that a single newline separates
C17_Witness ==
    /\ SegmentReturned
    /\ original_file.seps = <<<<"\n", "\n">>, <<"\n">>>>
    /\ original_file.lines = <<Txt("a"), Txt("b"), Txt("a")>>
    /\ original_clauses = <<Txt("a"), Txt("b") \o <<"\n">> \o Txt("a")>>

\* the pieces the paragraph split gives for the text
SplitPieces == re_split(original_text)

\* the positions of the pieces whose trimmed length exceeds MinClauseLen
KeptPieces ==
    {k \in 1..Len(SplitPieces) : Len(Strip(SplitPieces[k])) > MinClauseLen}

\* C18: every returned clause is a piece of the text, trimmed, of length
\* above 10; a piece of trimmed length 10 or less is discarded and one of
\* trimmed length 11 is kept; the clauses are the kept pieces in document
\* order: clause i (counting from 0) is the i-th kept piece.
C18_KeptPiecesInOrder ==
    SegmentReturned =>
        /\ Len(original_clauses) = Cardinality(KeptPieces)
        /\ \A k \in KeptPieces :
            original_clauses[Cardinality({j \in KeptPieces : j <= k})]
                = Strip(SplitPieces[k])
        /\ \A i \in 1..Len(original_clauses) :
            /\ Len(original_clauses[i]) > MinClauseLen
            /\ original_clauses[i][1] \notin Whitespace
            /\ original_clauses[i][Len(original_clauses[i])] \notin Whitespace
        /\ \A k \in 1..Len(SplitPieces) :
            /\ Len(Strip(SplitPieces[k])) <= MinClauseLen => k \notin KeptPieces
            /\ Len(Strip(SplitPieces[k])) = MinClauseLen + 1 => k \in KeptPieces

\* C18 witness: a first piece of 10 characters and a space (dropped), then
\* pieces of 11 characters that are kept in their order, the last one trimmed
C18_Witness ==
    /\ SegmentReturned
    /\ original_file.lines = <<TenChars, Txt("b"), Txt("a")>>
    /\ SplitPieces = <<TenChars \o <<" ">>, Txt("b"), <<" ">> \o Txt("a")>>
    /\ original_clauses = <<Txt("b"), Txt("a")>>

\* the matcher run on revised clause r alone
MatchAlone(r) ==
    find_semantic_matches(original_embeddings, <<revised_embeddings[r]>>,
        original_clauses, <<revised_clauses[r]>>, threshold)

\* the outcome of the call for revised clause r: its matched pair without
\* the revised index, or nothing when it is added
OutcomeFor(mr, r) ==
    {[original_index |-> mr.matched_pairs[k].original_index,
      similarity |-> mr.matched_pairs[k].similarity] :
        k \in {j \in PairIdx(mr) : mr.matched_pairs[j].revised_index = r - 1}}

\* C19: for every revised clause r, with m the maximum of its row of the
\* similarity matrix: r is in a matched pair if and only if m >= threshold
\* (m = threshold included), the pair then being with an original clause of
\* similarity m, and r is among the added clauses if and only if
\* m < threshold.  The outcome for r does not depend on the other revised
\* clauses: two revised clauses with equal rows have equal outcomes, and the
\* last clause, which all the others precede, has the outcome the matcher
\* gives for it alone.
C19_MatchingRule ==
    MatchReturned =>
        LET similarity_matrix == SimilarityMatrix
            last == Len(revised_clauses)
        IN  /\ \A r \in 1..Len(revised_clauses) :
                LET row == similarity_matrix[r]
                    reaches == \E o \in 1..Len(row) : SimGE(row[o], threshold)
                IN  /\ reaches <=> PairsOf(r) # {}
                    /\ ~reaches <=>
                            (r - 1) \in Range(match_results.added_indices)
                    /\ Cardinality(PairsOf(r)) <= 1
                    /\ \A k \in PairsOf(r) :
                        LET pair == match_results.matched_pairs[k]
                        IN  /\ IsBest(row, pair.original_index + 1)
                            /\ pair.similarity = row[pair.original_index + 1]
                            /\ SimGE(pair.similarity, threshold)
                    /\ \A q \in 1..(r - 1) :
                        similarity_matrix[q] = row =>
                            OutcomeFor(match_results, q)
                                = OutcomeFor(match_results, r)
            /\ LET alone == MatchAlone(last)
               IN  /\ OutcomeFor(match_results, last) = OutcomeFor(alone, 1)
                   /\ PairsOf(last) = {} =>
                        alone.added_clauses = <<revised_clauses[last]>>

\* C19 witness: the first revised clause has its row maximum exactly at the
\* threshold and is matched; the second is below the threshold and added
C19_Witness ==
    /\ MatchReturned
    /\ Len(revised_clauses) >= 2
    /\ Len(original_clauses) >= 2
    /\ PairsOf(1) # {}
    /\ \A k \in PairsOf(1) :
        /\ match_results.matched_pairs[k].similarity.num * threshold.den
            = threshold.num * match_results.matched_pairs[k].similarity.den
        /\ SimLess(match_results.matched_pairs[k].similarity, One)
    /\ match_results.added_indices = <<1>>

\* the positions (1-based) that hold the maximum of the row
Tied(row) == {o \in 1..Len(row) : IsBest(row, o)}

\* C20: when several original clauses hold the maximum of the row of a
\* matched revised clause r, the pair of r carries the lowest of their
\* indices; r consumes no other tied original: such an original is in a
\* matched pair only of another revised clause, and is deleted when there is
\* none.
C20_TieBreaking ==
    MatchReturned =>
        LET similarity_matrix == SimilarityMatrix
            pairs == PairSet(match_results)
            deleted == Range(match_results.deleted_indices)
        IN  \A r \in 1..Len(revised_clauses) :
            \A k \in PairsOf(r) :
                LET chosen == match_results.matched_pairs[k].original_index + 1
                    tied == Tied(similarity_matrix[r])
                IN  /\ chosen \in tied
                    /\ \A o \in tied : chosen <= o
                    /\ \A o \in tied \ {chosen} :
                        /\ <<o - 1, r - 1>> \notin pairs
                        /\ (o - 1) \notin deleted =>
                            \E p \in pairs : p[1] = o - 1 /\ p[2] # r - 1
                        /\ (\A p \in pairs : p[1] # o - 1) =>
                            (o - 1) \in deleted

\* C20 witness: both original clauses hold the maximum of the row of the only
\* matched revised clause, under different texts; the pair carries index 0
\* and original 1 is deleted
C20_Witness ==
    /\ MatchReturned
    /\ Len(original_clauses) = 2
    /\ original_clauses[1] # original_clauses[2]
    /\ Tied(SimilarityMatrix[1]) = {1, 2}
    /\ Len(match_results.matched_pairs) = 1
    /\ match_results.matched_pairs[1].original_index = 0
    /\ match_results.matched_pairs[1].revised_index = 0
    /\ match_results.deleted_indices = <<1>>

----------------------------------------------------------------------------
(* Properties of the classification of one pair (checked under SpecClassify) *)

Classified == pc = "classified"

\* the classification values of the data model
Classifications == {"Beneficial", "Harmful", "Neutral"}

\* an analysis of the documented shape
WellFormed(analysis) ==
    /\ {"summary", "implication", "classification"} \subseteq DOMAIN analysis
    /\ analysis.classification \in Classifications

\* C13 as stated: whatever the generative model returned, the aiAnalysis of
\* every changedClauses entry of the report has the keys summary, implication
\* and classification, and its classification is Beneficial, Harmful or
\* Neutral.
C13_AnalysisWellFormed ==
    Classified =>
        \A i \in 1..Len(response.changedClauses) :
            WellFormed(response.changedClauses[i].aiAnalysis)

----------------------------------------------------------------------------
(* Further properties of compare_documents (checked under Spec) *)

\* the trimmed texts of a matched pair differ
TrimmedDiffer(pair) == Strip(pair.original_text) # Strip(pair.revised_text)

\* the matched pairs that need a classification, in the matcher's order
PairsToClassify == SelectSeq(match_results.matched_pairs, TrimmedDiffer)

\* the tasks in which analyze_semantic_diff has been entered: the prompt is built
IssuedCalls == {i \in 1..Len(gen_calls) : gen_calls[i].prompt # <<>>}

ModelNotObtained(i) ==
    /\ task[i] = "done"
    /\ generative_model = <<>> \/ generative_model[1].created_by > i

\* C24: a classification task in which obtaining the model, generate_content
\* or the reading of the response text raised ends by returning the fallback
\* report of the outer except, classification Neutral: it ends with a value,
\* never with an exception, the request does not end in an error, and the
\* report carries that fallback for the pair and an entry for every pair.
C24_ClassifierNeverRaises ==
    \A i \in 1..Len(task) :
        /\ ModelNotObtained(i) => OutcomeOf(i).raises
        /\ task[i] = "done" /\ OutcomeOf(i).raises =>
            /\ IsDict(ai_analyses[i][1])
            /\ ai_analyses[i][1].dict = ExceptFallback
            /\ ai_analyses[i][1].dict.classification = "Neutral"
            /\ ~Failed
            /\ pc \in {"gather", "assemble", "done"}
            /\ Done =>
                /\ Len(response.changedClauses) = Len(task)
                /\ response.changedClauses[i].aiAnalysis = ExceptFallback

\* C24 witness: three changed pairs; the first task could not obtain the
\* model (the second created the handle), the call of the second raised, the
\* third returned an analysis; the report has all three entries
C24_Witness ==
    /\ Done
    /\ Len(response.changedClauses) = 3
    /\ ModelNotObtained(1)
    /\ generative_model = <<GenerativeModel(2)>>
    /\ OutcomeOf(2).raises
    /\ response.changedClauses[1].aiAnalysis = ExceptFallback
    /\ response.changedClauses[2].aiAnalysis = ExceptFallback
    /\ response.changedClauses[3].aiAnalysis.classification = "Beneficial"

\* a step that sends a batch to the embedding provider
EmbeddingRequested ==
    /\ pc \in {"embed_original", "embed_revised"}
    /\ batch_start' # batch_start \/ pc' = "error"
    /\ batch_start < Len(EmbeddingInput)

\* the step in which find_semantic_matches runs
MatcherRuns == match_results' # match_results

\* a step in which a classification task starts
ClassifierStarts ==
    \E i \in 1..Len(task) : task[i] = "pending" /\ task'[i] # "pending"

\* the step that builds the report
ReportAssembled == pc # "done" /\ pc' = "done"

\* C25: in every step of a request, an embedding batch is requested only
\* when both documents are segmented and both clause lists are non-empty;
\* the matcher runs only when every clause of both documents has its
\* embedding; a classification task starts only when the matcher has
\* returned its result; the report is built only when every classification
\* task has ended with a value.
C25_StageOrdering ==
    [][/\ EmbeddingRequested =>
            /\ original_clauses = segment_into_clauses(original_text)
            /\ revised_clauses = segment_into_clauses(revised_text)
            /\ original_clauses # <<>>
            /\ revised_clauses # <<>>
            /\ match_results = NoResults
       /\ MatcherRuns =>
            /\ original_embeddings = Embed(provider, original_clauses)
            /\ revised_embeddings = Embed(provider, revised_clauses)
            /\ Len(original_embeddings) = Len(original_clauses)
            /\ Len(revised_embeddings) = Len(revised_clauses)
            /\ task = <<>>
       /\ ClassifierStarts =>
            /\ match_results = find_semantic_matches(original_embeddings,
                    revised_embeddings, original_clauses, revised_clauses,
                    DefaultThreshold)
            /\ match_results' = match_results
            /\ pc = "gather"
       /\ ReportAssembled =>
            /\ match_results # NoResults
            /\ \A i \in 1..Len(task) :
                    task[i] = "done" /\ ai_analyses[i] # <<>>
      ]_vars

\* C25 witness: a report built after two classification tasks, one of which
\* failed, on documents of two clauses each
C25_Witness ==
    /\ Done
    /\ Len(original_embeddings) = 2
    /\ Len(revised_embeddings) = 2
    /\ Len(task) = 2
    /\ OutcomeOf(1).raises
    /\ ~OutcomeOf(2).raises

\* task i has started: get_generative_model has read the global in it
ReadsHandle(i) == task[i] # "pending"

\* task i stored the handle in the global
WroteHandle(i) ==
    generative_model # <<>> /\ generative_model[1].created_by = i

\* C27 as stated: no classification task reads or writes a variable another
\* task writes, the module-level generative-model handle included.
C27_NoSharedState ==
    \A i, j \in 1..Len(task) :
        i # j => ~(WroteHandle(i) /\ ReadsHandle(j))

\* a step of task i
StepOf(i) == task'[i] # task[i]

\* C27 amended: the tasks of a request share the module-level handle and
\* nothing else.  A step of task i changes, besides the handle, only the
\* task's own state, call and result, and its prompt holds its own pair; the
\* handle is written only while it is unset and while no other task is
\* running, by the task that finds it unset, and is never changed afterwards,
\* so at most one task of a request writes it and every later task reads
\* the value that task stored.
C27_OnlyHandleShared ==
    [][/\ \A i \in 1..Len(task) : StepOf(i) =>
            /\ \A j \in 1..Len(task) : j # i =>
                    /\ task'[j] = task[j]
                    /\ gen_calls'[j] = gen_calls[j]
                    /\ ai_analyses'[j] = ai_analyses[j]
                    /\ task[j] # "running"
            /\ gen_calls'[i].prompt = <<changed_clauses[i].original_text,
                                        changed_clauses[i].revised_text>>
            /\ changed_clauses' = changed_clauses
            /\ match_results' = match_results
            /\ response' = response
            /\ generative_model' # generative_model =>
                    generative_model' = <<GenerativeModel(i)>>
            /\ task'[i] = "running" => generative_model' # <<>>
       /\ generative_model' # generative_model =>
            /\ generative_model = <<>>
            /\ \E i \in 1..Len(task) : StepOf(i)
       /\ generative_model # <<>> /\ pc = "gather" =>
            /\ generative_model[1].created_by \in 1..Len(task)
            /\ \A j \in 1..Len(task) :
                    j < generative_model[1].created_by =>
                        task[j] = "done" /\ OutcomeOf(j).raises
      ]_vars

\* C27 witness: the first task stored the handle and has ended, the second
\* task is running with that handle
C27_Witness ==
    /\ pc = "gather"
    /\ Len(task) >= 2
    /\ WroteHandle(1)
    /\ task[1] = "done"
    /\ task[2] = "running"
    /\ ReadsHandle(2)

\* C28: in every report additions + (matched pairs) = revisedClauses and
\* totalChanges <= (matched pairs), hence additions + totalChanges <=
\* revisedClauses, with equality exactly when every matched pair differs in
\* its trimmed texts; the counts are the lengths of the lists reported; and a
\* matched pair with equal trimmed texts is reported nowhere: its revised
\* clause is not among the added ones, its original clause not among the
\* deleted ones, and no changedClauses entry stands for the pair.
C28_CountConservation ==
    Done =>
        LET s == response.summary
            pairs == match_results.matched_pairs
        IN  /\ s.additions + Len(pairs) = s.revisedClauses
            /\ s.revisedClauses = Len(revised_clauses)
            /\ s.additions = Len(response.addedClauses)
            /\ s.totalChanges = Len(response.changedClauses)
            /\ s.totalChanges <= Len(pairs)
            /\ s.additions + s.totalChanges <= s.revisedClauses
            /\ (s.additions + s.totalChanges = s.revisedClauses)
                    <=> \A k \in 1..Len(pairs) : TrimmedDiffer(pairs[k])
            /\ \A k \in 1..Len(pairs) : ~TrimmedDiffer(pairs[k]) =>
                    /\ pairs[k].revised_index
                            \notin Range(match_results.added_indices)
                    /\ pairs[k].original_index
                            \notin Range(match_results.deleted_indices)
                    /\ \A i \in 1..Len(changed_clauses) :
                            changed_clauses[i].revised_index
                                # pairs[k].revised_index
                    /\ \A i \in 1..Len(response.changedClauses) :
                            <<response.changedClauses[i].originalText,
                              response.changedClauses[i].revisedText>>
                                # <<pairs[k].original_text, pairs[k].revised_text>>

\* C28 witness: three revised clauses, all matched, two of them with equal
\* texts and one with different texts, and an original clause deleted:
\* 0 + 1 < 3
C28_Witness ==
    /\ Done
    /\ response.summary.revisedClauses = 3
    /\ response.summary.additions = 0
    /\ response.summary.totalChanges = 1
    /\ response.summary.deletions = 1
    /\ Len(match_results.matched_pairs) = 3

\* a report with an added clause beside a matched pair of equal texts: 1 + 0 < 2
C28_WitnessAdded ==
    /\ Done
    /\ response.summary.revisedClauses = 2
    /\ response.summary.additions = 1
    /\ response.summary.totalChanges = 0
    /\ Len(match_results.matched_pairs) = 1

\* C30: the default of clause.get('ai_analysis', ..) is never used: when the
\* report is built every entry of changed_clauses has its ai_analysis, set at
\* the join and not before, and it is the value analyze_semantic_diff
\* returned for that pair, or the "Analysis failed" fallback of the join for
\* a task that ended with an exception; the report carries that value, which
\* is not the default.
C30_DefaultNeverEmitted ==
    /\ pc \notin {"assemble", "done"} =>
            \A i \in 1..Len(changed_clauses) :
                changed_clauses[i].ai_analysis = <<>>
    /\ pc \in {"assemble", "done"} =>
            \A i \in 1..Len(changed_clauses) :
                /\ changed_clauses[i].ai_analysis # <<>>
                /\ ai_analyses[i] = <<analyze_semantic_diff(OutcomeOf(i))>>
                /\ changed_clauses[i].ai_analysis[1] =
                        IF IsDict(ai_analyses[i][1])
                        THEN ai_analyses[i][1].dict
                        ELSE JoinFallback
    /\ Done =>
            /\ Len(response.changedClauses) = Len(changed_clauses)
            /\ \A i \in 1..Len(changed_clauses) :
                /\ response.changedClauses[i].aiAnalysis
                        = changed_clauses[i].ai_analysis[1]
                /\ response.changedClauses[i].aiAnalysis # DefaultAnalysis

\* C30 witness: a report with two entries, the first carrying the degraded
\* report of a response without JSON, the second a parsed analysis
C30_Witness ==
    /\ Done
    /\ Len(response.changedClauses) = 2
    /\ response.changedClauses[1].aiAnalysis = ParseFallback(<<"x">>)
    /\ response.changedClauses[2].aiAnalysis.classification = "Beneficial"
    /\ changed_clauses[2].ai_analysis # <<>>

----------------------------------------------------------------------------
(* Termination of compare_documents (checked under SpecFair) *)

\* C29: when every external call eventually returns or raises, every request
\* eventually ends, with a report or with an error, and a request that has
\* reached the join of the classification tasks ends with a report, whatever
\* calls failed.
C29_RequestEnds ==
    /\ <>(Done \/ Failed)
    /\ (pc = "gather") ~> Done

\* C29 witness: a report returned although all three classification tasks
\* failed, none having obtained the model
C29_Witness ==
    /\ Done
    /\ Len(task) = 3
    /\ OutcomeOf(3).raises
    /\ OutcomeOf(1).raises
    /\ OutcomeOf(2).raises
    /\ generative_model = <<>>
    /\ Len(response.changedClauses) = 3

----------------------------------------------------------------------------
(* The matcher on long documents (checked under SpecBatches) *)

\* the lowest position holding the maximum of the row: the row argmax
LowestTied(row) == CHOOSE o \in Tied(row) : \A p \in Tied(row) : o <= p

\* C21: when two different revised clauses both have the same original
\* clause as the argmax of their rows, with similarity >= threshold, both are
\* recorded as matched pairs against that original clause, the original
\* clause is not among the deleted and neither revised clause is among the
\* added.
C21_ManyToOne ==
    match_results # NoResults =>
        LET similarity_matrix == SimilarityMatrix
            pairs == PairSet(match_results)
            added == Range(match_results.added_indices)
            deleted == Range(match_results.deleted_indices)
            \* <<r, o>>: o is the argmax of row r, with similarity >= threshold
            best == {<<r, LowestTied(similarity_matrix[r])>> :
                        r \in 1..Len(revised_clauses)}
            good == {b \in best :
                        SimGE(similarity_matrix[b[1]][b[2]], threshold)}
        IN  \A b1, b2 \in good :
                b1[1] < b2[1] /\ b1[2] = b2[2]
                => /\ <<b1[2] - 1, b1[1] - 1>> \in pairs
                   /\ <<b1[2] - 1, b2[1] - 1>> \in pairs
                   /\ (b1[2] - 1) \notin deleted
                   /\ (b1[1] - 1) \notin added
                   /\ (b2[1] - 1) \notin added

\* C21 witness: at least six revised clauses are matched to original clause
\* 0, the last of them under another text and with a lower similarity than
\* the first; original clause 0 is not deleted and nothing is added
C21_Witness ==
    /\ match_results # NoResults
    /\ Len(match_results.matched_pairs) > BatchSize
    /\ \A k \in PairIdx(match_results) :
            match_results.matched_pairs[k].original_index = 0
    /\ LET first == match_results.matched_pairs[1]
           last == match_results.matched_pairs[Len(match_results.matched_pairs)]
       IN  /\ first.revised_text # last.revised_text
           /\ SimLess(last.similarity, first.similarity)
    /\ 0 \notin Range(match_results.deleted_indices)
    /\ match_results.added_indices = <<>>

----------------------------------------------------------------------------
(* Properties of get_embeddings (checked under SpecBatches) *)

\* ceil(n / BatchSize)
CeilDiv(n) == (n + BatchSize - 1) \div BatchSize

\* the provider calls the running get_embeddings has made
CallsMade == batch_start \div BatchSize

\* a step in which a batch is sent to the provider and answered
BatchAnswered ==
    /\ pc \in {"embed_original", "embed_revised"}
    /\ batch_start' # batch_start
    /\ pc' = pc

\* the step in which get_embeddings returns
EmbeddingsReturned ==
    /\ pc \in {"embed_original", "embed_revised"}
    /\ pc' \notin {pc, "error"}

\* the value get_embeddings returned in this step
ReturnedEmbeddings ==
    IF pc = "embed_original" THEN original_embeddings' ELSE revised_embeddings'

\* C26: get_embeddings on n clauses makes its provider calls one at a time;
\* the k-th call carries the clauses 5(k-1)+1 .. min(5k, n), at most 5 and at
\* least one, right after those of the call before; with a provider that
\* answers one vector per clause in order, the call returns after exactly
\* ceil(n/5) calls a list of n vectors whose i-th is the embedding of the
\* i-th clause.
C26_BatchedEmbeddings ==
    [][/\ BatchAnswered =>
            LET n == Len(EmbeddingInput)
                sent == Len(all_embeddings') - Len(all_embeddings)
            IN  /\ batch_start = BatchSize * CallsMade
                /\ Len(all_embeddings) = batch_start
                /\ batch_start < n
                /\ sent = Min(BatchSize, n - batch_start)
                /\ sent \in 1..BatchSize
                /\ all_embeddings' = Embed(provider,
                        SubSeq(EmbeddingInput, 1, batch_start + sent))
                /\ batch_start' = batch_start + BatchSize
       /\ EmbeddingsReturned =>
            LET n == Len(EmbeddingInput)
            IN  /\ CallsMade = CeilDiv(n)
                /\ Len(ReturnedEmbeddings) = n
                /\ \A i \in 1..n :
                        ReturnedEmbeddings[i] = provider[EmbeddingInput[i]]
      ]_vars

\* C26 witness: seven revised clauses, the last with a vector of its own, were
\* embedded in two calls after six original clauses
C26_Witness ==
    /\ pc = "match"
    /\ Len(original_embeddings) = 6
    /\ Len(revised_clauses) = 7
    /\ Len(revised_embeddings) = 7
    /\ revised_embeddings[7] # revised_embeddings[6]
    /\ revised_embeddings[7] = provider[revised_clauses[7]]

----------------------------------------------------------------------------
(* Further properties of the classification of one pair (SpecClassify) *)

\* the outcome drawn for the call, the text it returned, the text trimmed
CallOutcome == gen_calls[1].outcome[1]

ModelText == CallOutcome.text

TrimmedText == Strip(ModelText)

\* the analysis the report carries for the pair
ReportedAnalysis == response.changedClauses[1].aiAnalysis

\* the model text holds a '{' and a '}'
HasBraces == "{" \in Range(TrimmedText) /\ "}" \in Range(TrimmedText)

\* from the first '{' to the last '}' (empty when the last '}' comes first)
BraceSubstring ==
    SubSeq(TrimmedText,
           CHOOSE i \in 1..Len(TrimmedText) :
                TrimmedText[i] = "{" /\ \A j \in 1..(i - 1) : TrimmedText[j] # "{",
           CHOOSE i \in 1..Len(TrimmedText) :
                TrimmedText[i] = "}"
                    /\ \A j \in (i + 1)..Len(TrimmedText) : TrimmedText[j] # "}")

\* the degraded report with the given implication
Degraded(implication) ==
    [summary |-> "Changes detected between clauses",
     implication |-> implication,
     classification |-> "Neutral"]

\* C23 as stated: when the call returns, the analysis is the JSON value of
\* the substring from the first '{' to the last '}' when that parses, and in
\* every other case the degraded report whose implication is the raw model
\* text; the task returns a value, no exception escapes it.
C23_ParsingPolicyRaw ==
    Classified /\ ~CallOutcome.raises =>
        /\ IsDict(ai_analyses[1][1])
        /\ ReportedAnalysis =
            IF HasBraces /\ JsonValid(BraceSubstring)
            THEN JsonLoads(BraceSubstring)
            ELSE Degraded(ModelText)

\* C23 amended: the same, but the implication of the degraded report is the
\* trimmed model text when the text lacks a '{' or a '}', and the model text
\* as returned when the substring between the braces does not parse.
C23_ParsingPolicy ==
    Classified /\ ~CallOutcome.raises =>
        /\ IsDict(ai_analyses[1][1])
        /\ ReportedAnalysis =
            IF HasBraces /\ JsonValid(BraceSubstring)
            THEN JsonLoads(BraceSubstring)
            ELSE IF HasBraces
            THEN Degraded(ModelText)
            ELSE Degraded(TrimmedText)

\* C23 witness: a text without braces that begins with a space: the degraded
\* report carries the trimmed text
C23_Witness ==
    /\ Classified
    /\ ModelText = <<" ", "x">>
    /\ ReportedAnalysis = Degraded(<<"x">>)
    /\ ReportedAnalysis.implication # ModelText

\* a JSON object between prose is parsed and returned
C23_WitnessParsed ==
    /\ Classified
    /\ ModelText = <<"x", "{", "k", "}">>
    /\ ReportedAnalysis.classification = "Beneficial"

\* the last '}' before the first '{': the degraded report, the text as returned
C23_WitnessReversed ==
    /\ Classified
    /\ ModelText = <<" ", "}", "{">>
    /\ ReportedAnalysis = Degraded(ModelText)

====
